---- MODULE Spec2Model ----
(***************************************************************************)
(* Markov chain user-behaviour simulator: the chain validator, the         *)
(* in-memory store, the agent registry and the simulation driver with its  *)
(* per-step concurrent notification fan-out.                               *)
(*                                                                         *)
(* Weights and random draws are fixed-point numbers in units of 1/Scale.   *)
(* uuid4() identifiers are modelled as counters: every new object gets an  *)
(* identifier never used before.                                           *)
(***************************************************************************)
EXTENDS Integers, Sequences, FiniteSets, TLC

\* ---------------------------------------------------------------- bounds
MaxAgents == 2
MaxSteps == 2
MaxChains == 2
FanoutAgents == 3
MaxTransitions == 2
MaxRuns == 2

\* ------------------------------------------------------- program constants
Scale == 1000 * 1000
\* 0.99 and 1.01 of State.validate_transitions, in units of 1/Scale
SumLow == 990000
SumHigh == 1010000

HttpMethods == {"GET", "POST", "PUT", "DELETE", "PATCH"}

None == "None"

\* ------------------------------------------------------------- chain model
\* A State is [name, transitions, http_method, payload]; transitions is the
\* dict in insertion order, a sequence of [to, p] with distinct keys.
Tr(to, p) == [to |-> to, p |-> p]

MkState(name, transitions, http_method, payload) ==
    [name |-> name, transitions |-> transitions,
     http_method |-> http_method, payload |-> payload]

RECURSIVE SumWeights(_)
SumWeights(transitions) ==
    IF transitions = <<>> THEN 0
    ELSE Head(transitions).p + SumWeights(Tail(transitions))

Targets(transitions) == {transitions[i].to : i \in 1..Len(transitions)}

\* the assertion with its upper limit left out
validate_transitions_lower_only(transitions) ==
    SumLow <= SumWeights(transitions)

\* State.validate_transitions (the assertion's condition)
validate_transitions(transitions) ==
    SumLow <= SumWeights(transitions) /\ SumWeights(transitions) <= SumHigh

\* pydantic construction of one State: the Literal check on http_method and
\* the field validator on transitions
StateValid(s) ==
    s.http_method \in HttpMethods /\ validate_transitions(s.transitions)

\* the first assertion alone
validate_states_initial_only(states, initial_state) ==
    initial_state \in DOMAIN states

\* MarkovChain.validate_states_and_transitions (both assertions)
validate_states_and_transitions(states, initial_state) ==
    /\ initial_state \in DOMAIN states
    /\ \A state_name \in DOMAIN states :
         \A transition_target \in Targets(states[state_name].transitions) :
            transition_target \in DOMAIN states

\* MarkovChainCreate(...) of the request body: every State is validated
MarkovChainCreateValid(d) ==
    \A k \in DOMAIN d.states : StateValid(d.states[k])

\* MarkovChain(**chain.model_dump()): the States are validated again, then
\* the model validator runs
MarkovChainValid(d) ==
    /\ \A k \in DOMAIN d.states : StateValid(d.states[k])
    /\ validate_states_and_transitions(d.states, d.initial_state)

\* The chain object the constructor returns: the draft's fields under a
\* fresh id; nothing is normalised.
MarkovChain(id, d) ==
    [id |-> id, states |-> d.states, initial_state |-> d.initial_state,
     name |-> d.name]

\* ------------------------------------------------------------------ sampler
\* the loop with a strict comparison
RECURSIVE Walk_strict(_, _, _)
Walk_strict(transitions, cumulative, rand) ==
    IF transitions = <<>> THEN None
    ELSE IF rand < cumulative + Head(transitions).p THEN Head(transitions).to
    ELSE Walk_strict(Tail(transitions), cumulative + Head(transitions).p, rand)

\* lines 181-186: the loop over transitions.items()
RECURSIVE Walk(_, _, _)
Walk(transitions, cumulative, rand) ==
    IF transitions = <<>> THEN None
    ELSE IF rand <= cumulative + Head(transitions).p THEN Head(transitions).to
    ELSE Walk(Tail(transitions), cumulative + Head(transitions).p, rand)

\* the sampler without its fallback: nothing is returned when the loop ends
_choose_next_state_no_fallback(current_state, rand) ==
    IF current_state.transitions = <<>> THEN current_state.name
    ELSE Walk(current_state.transitions, 0, rand)

\* the sampler falling back to the first key
_choose_next_state_fallback_first(current_state, rand) ==
    IF current_state.transitions = <<>> THEN current_state.name
    ELSE IF Walk(current_state.transitions, 0, rand) # None
         THEN Walk(current_state.transitions, 0, rand)
         ELSE current_state.transitions[1].to

\* MarkovSimulator._choose_next_state with random.random() = rand / Scale
_choose_next_state(current_state, rand) ==
    IF current_state.transitions = <<>> THEN current_state.name
    ELSE IF Walk(current_state.transitions, 0, rand) # None
         THEN Walk(current_state.transitions, 0, rand)
         ELSE current_state.transitions[Len(current_state.transitions)].to

\* ------------------------------------------------------------------- state
VARIABLES
    markov_chains,       \* db["markov_chains"]: chain id -> MarkovChain
    chain_uuid,          \* number of chain ids handed out by uuid4()
    draft,               \* body of the latest create-chain request
    verdict,             \* its HTTP status (0 before any request)
    default_chain_ids,   \* default_chains.default_chain_ids: key -> chain id
    default_chain_id,    \* main.default_chain_id (NoId: None)
    agents_db,           \* db["agents"]: the dict's keys in insertion order
    agent_obj,           \* the Agent objects on the heap, by id
    agent_call,          \* the latest recorded request to an agent route
    simulations,         \* db["simulations"]: simulation id -> Simulation
    now,                 \* the wall clock read by datetime.now()
    pc,                  \* where run_simulation stands
    arg_chain_id,        \* run_simulation's chain_id argument
    num_steps,           \* run_simulation's num_steps argument
    chain,               \* local: the chain object read at the start
    run_agents,          \* local: the list get_active_agents() returned
    simulation_id,       \* local: simulation.id
    current_state_name,  \* local
    step_no,             \* 1-based index of the loop iteration in progress
    agent_responses,     \* the result slots of asyncio.gather, in list order
    inflight,            \* the network: <<step, agent id>> of open requests
    sent,                \* every request put on the wire, in order
    finished,            \* agent ids in the order their calls ended (this step)
    snapshot_uuid,       \* number of agent ids handed out when the run began
    drawn,               \* the latest value of random.random(), times Scale
    warnings,            \* logger.warning calls: <<simulation id, step, agent id>>
    requests,            \* the requests put on the wire, in the order of `sent`
    other,               \* the locals of a second run_simulation task, suspended
    todo,                \* run_all_default_simulations: chain ids still to run
    asked                \* the latest request to a simulation route

chainVars == <<markov_chains, chain_uuid, draft, verdict, default_chain_ids,
              default_chain_id>>
agentVars == <<agents_db, agent_obj, agent_call>>
runVars == <<pc, arg_chain_id, num_steps, chain, run_agents, simulation_id,
             current_state_name, step_no, agent_responses, inflight, sent,
             finished, snapshot_uuid, drawn, warnings, requests, other, todo,
             asked>>
vars == <<markov_chains, chain_uuid, draft, verdict, default_chain_ids,
          default_chain_id, agents_db, agent_obj, agent_call,
          simulations, now, pc, arg_chain_id, num_steps, chain, run_agents,
          simulation_id, current_state_name, step_no, agent_responses,
          inflight, sent, finished, snapshot_uuid, drawn, warnings, requests,
          other, todo, asked>>

NoTime == 0 - 1
NoDraw == 0 - 1
NoId == 0 - 1
NoDraft == [states |-> <<>>, initial_state |-> None, name |-> None]
NoChain == [id |-> 0, states |-> <<>>, initial_state |-> None, name |-> None]
NoRequest == [route |-> None, key |-> None, chain_id |-> 0, steps |-> 0]

\* ------------------------------------------------------------ request data
\* Chain drafts a client may POST.
Home == MkState("home", <<Tr("home", 300000), Tr("cart", 700000)>>, "GET", "p0")
Cart == MkState("cart", <<Tr("home", 1000000)>>, "POST", "p1")
HomeShort == MkState("home", <<Tr("home", 700000), Tr("cart", 200000)>>, "GET", "p0")
HomeLost == MkState("home", <<Tr("home", 300000), Tr("gone", 700000)>>, "GET", "p0")

\* A request body with its name given; description is carried along
\* unread and is left out.
NamedDraft(states, initial_state, name) ==
    [states |-> states, initial_state |-> initial_state, name |-> name]

\* A request body without a name (name: Optional[str] = None)
Draft(states, initial_state) == NamedDraft(states, initial_state, None)

ShopDraft == Draft([k \in {"home", "cart"} |-> IF k = "home" THEN Home ELSE Cart], "home")
ShortDraft == Draft([k \in {"home", "cart"} |-> IF k = "home" THEN HomeShort ELSE Cart], "home")
DanglingDraft == Draft([k \in {"home", "cart"} |-> IF k = "home" THEN HomeLost ELSE Cart], "home")
NoInitialDraft == Draft([k \in {"home", "cart"} |-> IF k = "home" THEN Home ELSE Cart], "start")

Ping == MkState("ping", <<Tr("ping", 1000000)>>, "POST", "p2")
PingDraft == Draft([k \in {"ping"} |-> Ping], "ping")

SpecDrafts == {PingDraft, ShortDraft}

\* Every draft the validator is tried on: a "home" state with any transition
\* dict of up to MaxTransitions entries, alone or beside a "cart" state.
WeightPool == {0, 200000, 300000, 490000, 500000, 510000, 700000, 1000000}
TargetPool == {"home", "cart", "gone"}

TransitionDicts ==
    {t \in UNION {[1..n -> [to : TargetPool, p : WeightPool]] : n \in 0..MaxTransitions} :
        \A i, j \in 1..Len(t) : i # j => t[i].to # t[j].to}

CartLost == MkState("cart", <<Tr("gone", 1000000)>>, "POST", "p1")
CartHeavy == MkState("cart", <<Tr("home", 510000), Tr("cart", 510000)>>, "POST", "p1")
CartBadVerb == MkState("cart", <<Tr("home", 1000000)>>, "INVALID", "p1")

ValidatorDrafts ==
    {Draft([k \in {"home"} |-> MkState("home", t, "GET", "p0")], i) :
        t \in TransitionDicts, i \in {"home", "cart", "start"}}
    \cup
    {Draft([k \in {"home", "cart"} |->
              IF k = "home" THEN MkState("home", t, "GET", "p0") ELSE c], i) :
        t \in TransitionDicts, c \in {Cart, CartLost, CartHeavy, CartBadVerb},
        i \in {"home", "cart", "start"}}

\* Drafts whose "home" state has weights of either sign (a float may be
\* negative), alone or beside a "cart" state.
SignedWeightPool == {0 - 500000, 0, 500000, 1000000, 1500000}

SignedTransitionDicts ==
    {t \in UNION {[1..n -> [to : {"home", "cart"}, p : SignedWeightPool]] :
                     n \in 0..MaxTransitions} :
        \A i, j \in 1..Len(t) : i # j => t[i].to # t[j].to}

SignedDrafts ==
    {Draft([k \in {"home"} |-> MkState("home", t, "GET", "p0")], "home") :
        t \in SignedTransitionDicts}
    \cup
    {Draft([k \in {"home", "cart"} |->
              IF k = "home" THEN MkState("home", t, "GET", "p0") ELSE Cart], "home") :
        t \in SignedTransitionDicts}

\* Drafts whose states carry any name field under the keys "home" and "cart"
\* (name is a plain str field of State).
NamePool == {"home", "cart", "landing"}

NameDrafts ==
    {Draft([k \in {"home", "cart"} |->
              IF k = "home"
              THEN MkState(h, <<Tr("home", 300000), Tr("cart", 700000)>>, "GET", "p0")
              ELSE MkState(c, <<Tr("home", 1000000)>>, "POST", "p1")], "home") :
        h \in NamePool, c \in NamePool}

\* Values of random.random() * Scale tried by the driver.
Draws == {0, 999999}

\* The chains the sampler is tried on: three states with the first one's
\* weights 0.3, 0.3, 0.4, and every valid two-state chain whose "home" state
\* has a transition dict of TransitionDicts.
StateA == MkState("A", <<Tr("A", 300000), Tr("B", 300000), Tr("C", 400000)>>, "GET", "p0")
StateB == MkState("B", <<Tr("A", 1000000)>>, "GET", "p0")
StateC == MkState("C", <<Tr("A", 1000000)>>, "GET", "p0")
ABCDraft ==
    Draft([k \in {"A", "B", "C"} |->
             IF k = "A" THEN StateA ELSE IF k = "B" THEN StateB ELSE StateC], "A")

SamplerDrafts ==
    {ABCDraft} \cup
    {d \in {Draft([k \in {"home", "cart"} |->
                    IF k = "home" THEN MkState("home", t, "GET", "p0") ELSE Cart],
                 "home") : t \in TransitionDicts} :
        MarkovChainCreateValid(d) /\ MarkovChainValid(d)}

\* A chain that ends: "home" always moves to "end", which has no transitions.
Leave == MkState("home", <<Tr("end", 1000000)>>, "GET", "p0")
End == MkState("end", <<>>, "POST", "p1")
EndingDraft == Draft([k \in {"home", "end"} |-> IF k = "home" THEN Leave ELSE End], "home")

\* Values of random.random() * Scale tried by the sampler's specification.
SampleDraws == {0, 290000, 300000, 310000, 600000, 650000, 990000, 995000, 999999}

\* ------------------------------------------------------- built-in chains
\* The chain dictionaries of the source, weights times Scale.
\* default_chains.py, lines 20-281: ECOMMERCE_CHAIN (payloads as their JSON text)
ECOMMERCE_CHAIN_states ==
    [k \in {"homepage", "category_listing", "category_filter", "product_listing", "product_detail", "product_reviews", "related_product", "add_to_wishlist", "wishlist", "write_review", "add_to_cart", "cart", "update_cart", "checkout", "payment", "order_confirmation", "product_search", "search_results", "login", "account", "account_orders", "order_details", "featured_product", "register"} |->
       CASE k = "homepage" ->
              MkState("homepage", <<Tr("category_listing", 350000), Tr("product_search", 250000), Tr("login", 150000), Tr("featured_product", 150000), Tr("cart", 50000), Tr("account", 50000)>>,
                      "GET", "{}")
         [] k = "category_listing" ->
              MkState("category_listing", <<Tr("product_listing", 600000), Tr("category_filter", 200000), Tr("homepage", 100000), Tr("search_results", 100000)>>,
                      "GET", "{\"category_id\": 123}")
         [] k = "category_filter" ->
              MkState("category_filter", <<Tr("product_listing", 700000), Tr("category_listing", 200000), Tr("homepage", 100000)>>,
                      "GET", "{\"category_id\": 123, \"filter\": {\"price_range\": \"100-200\", \"brand\": \"acme\"}}")
         [] k = "product_listing" ->
              MkState("product_listing", <<Tr("product_detail", 600000), Tr("category_filter", 150000), Tr("category_listing", 100000), Tr("homepage", 50000), Tr("cart", 100000)>>,
                      "GET", "{\"page\": 1, \"sort\": \"popularity\"}")
         [] k = "product_detail" ->
              MkState("product_detail", <<Tr("add_to_cart", 300000), Tr("product_reviews", 200000), Tr("product_listing", 200000), Tr("add_to_wishlist", 100000), Tr("homepage", 100000), Tr("related_product", 100000)>>,
                      "GET", "{\"product_id\": 1234}")
         [] k = "product_reviews" ->
              MkState("product_reviews", <<Tr("product_detail", 600000), Tr("write_review", 100000), Tr("product_listing", 200000), Tr("homepage", 100000)>>,
                      "GET", "{\"product_id\": 1234, \"page\": 1}")
         [] k = "related_product" ->
              MkState("related_product", <<Tr("product_detail", 700000), Tr("add_to_cart", 200000), Tr("product_listing", 100000)>>,
                      "GET", "{\"product_id\": 5678}")
         [] k = "add_to_wishlist" ->
              MkState("add_to_wishlist", <<Tr("product_detail", 700000), Tr("wishlist", 200000), Tr("product_listing", 100000)>>,
                      "POST", "{\"product_id\": 1234}")
         [] k = "wishlist" ->
              MkState("wishlist", <<Tr("product_detail", 400000), Tr("account", 300000), Tr("homepage", 300000)>>,
                      "GET", "{}")
         [] k = "write_review" ->
              MkState("write_review", <<Tr("product_detail", 500000), Tr("product_reviews", 300000), Tr("homepage", 200000)>>,
                      "POST", "{\"product_id\": 1234, \"rating\": 5, \"comment\": \"Great product!\"}")
         [] k = "add_to_cart" ->
              MkState("add_to_cart", <<Tr("cart", 400000), Tr("product_detail", 300000), Tr("checkout", 200000), Tr("product_listing", 100000)>>,
                      "POST", "{\"product_id\": 1234, \"quantity\": 1}")
         [] k = "cart" ->
              MkState("cart", <<Tr("checkout", 400000), Tr("product_detail", 200000), Tr("update_cart", 200000), Tr("homepage", 100000), Tr("product_listing", 100000)>>,
                      "GET", "{}")
         [] k = "update_cart" ->
              MkState("update_cart", <<Tr("cart", 800000), Tr("checkout", 200000)>>,
                      "PATCH", "{\"item_id\": 5678, \"quantity\": 2}")
         [] k = "checkout" ->
              MkState("checkout", <<Tr("payment", 600000), Tr("cart", 300000), Tr("homepage", 100000)>>,
                      "GET", "{}")
         [] k = "payment" ->
              MkState("payment", <<Tr("order_confirmation", 700000), Tr("checkout", 200000), Tr("cart", 100000)>>,
                      "POST", "{\"payment_method\": \"credit_card\", \"amount\": 99.99}")
         [] k = "order_confirmation" ->
              MkState("order_confirmation", <<Tr("homepage", 500000), Tr("account_orders", 300000), Tr("product_listing", 200000)>>,
                      "GET", "{\"order_id\": \"ORD-12345\"}")
         [] k = "product_search" ->
              MkState("product_search", <<Tr("search_results", 800000), Tr("homepage", 200000)>>,
                      "POST", "{\"query\": \"smartphone\", \"filters\": {}}")
         [] k = "search_results" ->
              MkState("search_results", <<Tr("product_detail", 500000), Tr("product_listing", 300000), Tr("homepage", 200000)>>,
                      "GET", "{\"query\": \"smartphone\", \"page\": 1}")
         [] k = "login" ->
              MkState("login", <<Tr("homepage", 400000), Tr("account", 300000), Tr("cart", 200000), Tr("register", 100000)>>,
                      "POST", "{\"email\": \"user@example.com\", \"password\": \"********\"}")
         [] k = "account" ->
              MkState("account", <<Tr("homepage", 600000), Tr("cart", 400000)>>,
                      "GET", "{}")
         [] k = "account_orders" ->
              MkState("account_orders", <<Tr("order_details", 400000), Tr("account", 300000), Tr("homepage", 300000)>>,
                      "GET", "{}")
         [] k = "order_details" ->
              MkState("order_details", <<Tr("account_orders", 600000), Tr("write_review", 200000), Tr("account", 200000)>>,
                      "GET", "{\"order_id\": \"ORD-12345\"}")
         [] k = "featured_product" ->
              MkState("featured_product", <<Tr("product_detail", 700000), Tr("homepage", 200000), Tr("add_to_cart", 100000)>>,
                      "GET", "{\"product_id\": 9012}")
         [] k = "register" ->
              MkState("register", <<Tr("homepage", 500000), Tr("account", 300000), Tr("login", 200000)>>,
                      "POST", "{\"email\": \"newuser@example.com\", \"password\": \"********\", \"name\": \"New User\"}")]

ECOMMERCE_CHAIN == NamedDraft(ECOMMERCE_CHAIN_states, "homepage", "E-commerce User Journey")

\* default_chains.py, lines 284-430: SOCIAL_MEDIA_CHAIN (payloads as their JSON text)
SOCIAL_MEDIA_CHAIN_states ==
    [k \in {"feed", "view_post", "like_post", "comment", "share_post", "user_profile", "follow_user", "profile", "edit_profile", "notifications", "messages", "conversation", "send_message", "search"} |->
       CASE k = "feed" ->
              MkState("feed", <<Tr("view_post", 400000), Tr("profile", 200000), Tr("notifications", 200000), Tr("search", 100000), Tr("messages", 100000)>>,
                      "GET", "{}")
         [] k = "view_post" ->
              MkState("view_post", <<Tr("like_post", 300000), Tr("comment", 200000), Tr("share_post", 100000), Tr("user_profile", 200000), Tr("feed", 200000)>>,
                      "GET", "{\"post_id\": 12345}")
         [] k = "like_post" ->
              MkState("like_post", <<Tr("view_post", 400000), Tr("comment", 200000), Tr("feed", 400000)>>,
                      "POST", "{\"post_id\": 12345, \"action\": \"like\"}")
         [] k = "comment" ->
              MkState("comment", <<Tr("view_post", 600000), Tr("feed", 400000)>>,
                      "POST", "{\"post_id\": 12345, \"content\": \"Great post!\"}")
         [] k = "share_post" ->
              MkState("share_post", <<Tr("view_post", 300000), Tr("feed", 700000)>>,
                      "POST", "{\"post_id\": 12345, \"share_type\": \"timeline\"}")
         [] k = "user_profile" ->
              MkState("user_profile", <<Tr("view_post", 300000), Tr("follow_user", 200000), Tr("messages", 100000), Tr("feed", 400000)>>,
                      "GET", "{\"user_id\": 5678}")
         [] k = "follow_user" ->
              MkState("follow_user", <<Tr("user_profile", 600000), Tr("feed", 400000)>>,
                      "POST", "{\"user_id\": 5678, \"action\": \"follow\"}")
         [] k = "profile" ->
              MkState("profile", <<Tr("edit_profile", 200000), Tr("view_post", 300000), Tr("feed", 500000)>>,
                      "GET", "{}")
         [] k = "edit_profile" ->
              MkState("edit_profile", <<Tr("profile", 700000), Tr("feed", 300000)>>,
                      "PATCH", "{\"bio\": \"Updated bio\", \"avatar_url\": \"https://example.com/avatar.jpg\"}")
         [] k = "notifications" ->
              MkState("notifications", <<Tr("view_post", 400000), Tr("user_profile", 200000), Tr("feed", 400000)>>,
                      "GET", "{}")
         [] k = "messages" ->
              MkState("messages", <<Tr("conversation", 600000), Tr("feed", 400000)>>,
                      "GET", "{}")
         [] k = "conversation" ->
              MkState("conversation", <<Tr("send_message", 700000), Tr("messages", 200000), Tr("feed", 100000)>>,
                      "GET", "{\"conversation_id\": 9876}")
         [] k = "send_message" ->
              MkState("send_message", <<Tr("conversation", 800000), Tr("messages", 100000), Tr("feed", 100000)>>,
                      "POST", "{\"conversation_id\": 9876, \"content\": \"Hello there!\"}")
         [] k = "search" ->
              MkState("search", <<Tr("user_profile", 400000), Tr("view_post", 300000), Tr("feed", 300000)>>,
                      "GET", "{\"query\": \"example search\"}")]

\* the chain with an initial state it does not declare
SOCIAL_MEDIA_CHAIN_undeclared_start ==
    NamedDraft(SOCIAL_MEDIA_CHAIN_states, "start", "Social Media Interactions")

SOCIAL_MEDIA_CHAIN == NamedDraft(SOCIAL_MEDIA_CHAIN_states, "feed", "Social Media Interactions")

\* default_chains.py, lines 433-563: STREAMING_PLATFORM_CHAIN (payloads as their JSON text)
STREAMING_PLATFORM_CHAIN_states ==
    [k \in {"browse_home", "browse_category", "search_content", "view_content", "play_content", "rate_content", "add_to_list", "view_my_list", "recommendations", "user_account", "subscription_settings", "update_subscription"} |->
       CASE k = "browse_home" ->
              MkState("browse_home", <<Tr("browse_category", 300000), Tr("search_content", 200000), Tr("view_content", 300000), Tr("user_account", 100000), Tr("recommendations", 100000)>>,
                      "GET", "{}")
         [] k = "browse_category" ->
              MkState("browse_category", <<Tr("view_content", 500000), Tr("browse_home", 300000), Tr("search_content", 200000)>>,
                      "GET", "{\"category\": \"action\"}")
         [] k = "search_content" ->
              MkState("search_content", <<Tr("view_content", 600000), Tr("browse_home", 300000), Tr("browse_category", 100000)>>,
                      "GET", "{\"query\": \"popular movies\"}")
         [] k = "view_content" ->
              MkState("view_content", <<Tr("play_content", 600000), Tr("rate_content", 100000), Tr("add_to_list", 100000), Tr("browse_home", 100000), Tr("recommendations", 100000)>>,
                      "GET", "{\"content_id\": \"movie123\"}")
         [] k = "play_content" ->
              MkState("play_content", <<Tr("rate_content", 200000), Tr("view_content", 300000), Tr("recommendations", 200000), Tr("browse_home", 300000)>>,
                      "POST", "{\"content_id\": \"movie123\", \"timestamp\": 0}")
         [] k = "rate_content" ->
              MkState("rate_content", <<Tr("view_content", 400000), Tr("browse_home", 300000), Tr("recommendations", 300000)>>,
                      "POST", "{\"content_id\": \"movie123\", \"rating\": 4}")
         [] k = "add_to_list" ->
              MkState("add_to_list", <<Tr("view_content", 400000), Tr("browse_home", 400000), Tr("view_my_list", 200000)>>,
                      "POST", "{\"content_id\": \"movie123\", \"list\": \"watch_later\"}")
         [] k = "view_my_list" ->
              MkState("view_my_list", <<Tr("view_content", 600000), Tr("browse_home", 300000), Tr("user_account", 100000)>>,
                      "GET", "{}")
         [] k = "recommendations" ->
              MkState("recommendations", <<Tr("view_content", 700000), Tr("browse_home", 300000)>>,
                      "GET", "{\"based_on\": \"movie123\"}")
         [] k = "user_account" ->
              MkState("user_account", <<Tr("view_my_list", 300000), Tr("subscription_settings", 200000), Tr("browse_home", 500000)>>,
                      "GET", "{}")
         [] k = "subscription_settings" ->
              MkState("subscription_settings", <<Tr("update_subscription", 300000), Tr("user_account", 400000), Tr("browse_home", 300000)>>,
                      "GET", "{}")
         [] k = "update_subscription" ->
              MkState("update_subscription", <<Tr("subscription_settings", 500000), Tr("user_account", 300000), Tr("browse_home", 200000)>>,
                      "PATCH", "{\"plan\": \"premium\", \"payment_method\": \"credit_card\"}")]

STREAMING_PLATFORM_CHAIN == NamedDraft(STREAMING_PLATFORM_CHAIN_states, "browse_home", "Content Streaming Platform")

\* main.py, lines 43-396: DEFAULT_MARKOV_CHAIN (payloads as their JSON text)
DEFAULT_MARKOV_CHAIN_states ==
    [k \in {"homepage", "category_listing", "category_filter", "product_listing", "product_detail", "product_reviews", "related_product", "featured_product", "product_search", "search_results", "search_filter", "add_to_cart", "add_to_wishlist", "cart", "update_cart", "checkout_shipping", "checkout_payment", "checkout_review", "place_order", "order_confirmation", "login", "register", "account", "account_profile", "update_profile", "account_orders", "order_details", "wishlist", "write_review"} |->
       CASE k = "homepage" ->
              MkState("homepage", <<Tr("category_listing", 350000), Tr("product_search", 250000), Tr("login", 150000), Tr("featured_product", 150000), Tr("cart", 50000), Tr("account", 50000)>>,
                      "GET", "{}")
         [] k = "category_listing" ->
              MkState("category_listing", <<Tr("product_listing", 600000), Tr("category_filter", 200000), Tr("homepage", 100000), Tr("search_results", 100000)>>,
                      "GET", "{\"category_id\": 123}")
         [] k = "category_filter" ->
              MkState("category_filter", <<Tr("product_listing", 700000), Tr("category_listing", 200000), Tr("homepage", 100000)>>,
                      "GET", "{\"category_id\": 123, \"filter\": {\"price_range\": \"100-200\", \"brand\": \"acme\"}}")
         [] k = "product_listing" ->
              MkState("product_listing", <<Tr("product_detail", 600000), Tr("category_filter", 150000), Tr("category_listing", 100000), Tr("homepage", 50000), Tr("cart", 100000)>>,
                      "GET", "{\"page\": 1, \"sort\": \"popularity\"}")
         [] k = "product_detail" ->
              MkState("product_detail", <<Tr("add_to_cart", 300000), Tr("product_reviews", 200000), Tr("product_listing", 200000), Tr("add_to_wishlist", 100000), Tr("homepage", 100000), Tr("related_product", 100000)>>,
                      "GET", "{\"product_id\": 1234}")
         [] k = "product_reviews" ->
              MkState("product_reviews", <<Tr("product_detail", 600000), Tr("write_review", 100000), Tr("product_listing", 200000), Tr("homepage", 100000)>>,
                      "GET", "{\"product_id\": 1234, \"page\": 1}")
         [] k = "related_product" ->
              MkState("related_product", <<Tr("product_detail", 700000), Tr("add_to_cart", 200000), Tr("product_listing", 100000)>>,
                      "GET", "{\"product_id\": 5678}")
         [] k = "featured_product" ->
              MkState("featured_product", <<Tr("product_detail", 700000), Tr("homepage", 200000), Tr("add_to_cart", 100000)>>,
                      "GET", "{\"product_id\": 9012}")
         [] k = "product_search" ->
              MkState("product_search", <<Tr("search_results", 800000), Tr("homepage", 200000)>>,
                      "POST", "{\"query\": \"smartphone\", \"filters\": {}}")
         [] k = "search_results" ->
              MkState("search_results", <<Tr("product_detail", 500000), Tr("search_filter", 200000), Tr("product_search", 200000), Tr("homepage", 100000)>>,
                      "GET", "{\"query\": \"smartphone\", \"page\": 1}")
         [] k = "search_filter" ->
              MkState("search_filter", <<Tr("search_results", 700000), Tr("product_detail", 200000), Tr("homepage", 100000)>>,
                      "GET", "{\"query\": \"smartphone\", \"filters\": {\"price_min\": 300, \"price_max\": 800}}")
         [] k = "add_to_cart" ->
              MkState("add_to_cart", <<Tr("cart", 400000), Tr("product_detail", 300000), Tr("product_listing", 200000), Tr("checkout_shipping", 100000)>>,
                      "POST", "{\"product_id\": 1234, \"quantity\": 1, \"options\": {\"color\": \"black\"}}")
         [] k = "add_to_wishlist" ->
              MkState("add_to_wishlist", <<Tr("product_detail", 700000), Tr("wishlist", 200000), Tr("product_listing", 100000)>>,
                      "POST", "{\"product_id\": 1234}")
         [] k = "cart" ->
              MkState("cart", <<Tr("checkout_shipping", 300000), Tr("update_cart", 200000), Tr("product_detail", 200000), Tr("product_listing", 150000), Tr("homepage", 150000)>>,
                      "GET", "{}")
         [] k = "update_cart" ->
              MkState("update_cart", <<Tr("cart", 800000), Tr("checkout_shipping", 200000)>>,
                      "PATCH", "{\"items\": [{\"id\": 9876, \"quantity\": 2}]}")
         [] k = "checkout_shipping" ->
              MkState("checkout_shipping", <<Tr("checkout_payment", 700000), Tr("cart", 300000)>>,
                      "POST", "{\"address\": {\"street\": \"123 Main St\", \"city\": \"Anytown\", \"zip\": \"12345\", \"country\": \"US\"}, \"shipping_method\": \"standard\"}")
         [] k = "checkout_payment" ->
              MkState("checkout_payment", <<Tr("checkout_review", 700000), Tr("checkout_shipping", 200000), Tr("cart", 100000)>>,
                      "POST", "{\"payment_method\": \"credit_card\", \"card_token\": \"tok_****\"}")
         [] k = "checkout_review" ->
              MkState("checkout_review", <<Tr("place_order", 800000), Tr("checkout_payment", 100000), Tr("checkout_shipping", 100000)>>,
                      "GET", "{}")
         [] k = "place_order" ->
              MkState("place_order", <<Tr("order_confirmation", 950000), Tr("checkout_review", 50000)>>,
                      "POST", "{\"confirm\": true}")
         [] k = "order_confirmation" ->
              MkState("order_confirmation", <<Tr("homepage", 500000), Tr("account_orders", 300000), Tr("product_listing", 200000)>>,
                      "GET", "{\"order_id\": \"ORD-12345\"}")
         [] k = "login" ->
              MkState("login", <<Tr("homepage", 400000), Tr("account", 300000), Tr("cart", 200000), Tr("register", 100000)>>,
                      "POST", "{\"email\": \"user@example.com\", \"password\": \"********\"}")
         [] k = "register" ->
              MkState("register", <<Tr("homepage", 500000), Tr("account", 300000), Tr("login", 200000)>>,
                      "POST", "{\"email\": \"newuser@example.com\", \"password\": \"********\", \"name\": \"New User\"}")
         [] k = "account" ->
              MkState("account", <<Tr("account_orders", 250000), Tr("account_profile", 250000), Tr("wishlist", 200000), Tr("homepage", 300000)>>,
                      "GET", "{}")
         [] k = "account_profile" ->
              MkState("account_profile", <<Tr("update_profile", 300000), Tr("account", 400000), Tr("homepage", 300000)>>,
                      "GET", "{}")
         [] k = "update_profile" ->
              MkState("update_profile", <<Tr("account_profile", 600000), Tr("account", 400000)>>,
                      "PATCH", "{\"name\": \"Updated Name\", \"email\": \"updated@example.com\"}")
         [] k = "account_orders" ->
              MkState("account_orders", <<Tr("order_details", 400000), Tr("account", 300000), Tr("homepage", 300000)>>,
                      "GET", "{}")
         [] k = "order_details" ->
              MkState("order_details", <<Tr("account_orders", 600000), Tr("write_review", 200000), Tr("account", 200000)>>,
                      "GET", "{\"order_id\": \"ORD-12345\"}")
         [] k = "wishlist" ->
              MkState("wishlist", <<Tr("product_detail", 400000), Tr("account", 300000), Tr("homepage", 300000)>>,
                      "GET", "{}")
         [] k = "write_review" ->
              MkState("write_review", <<Tr("product_detail", 500000), Tr("account_orders", 300000), Tr("order_details", 200000)>>,
                      "POST", "{\"product_id\": 1234, \"rating\": 5, \"comment\": \"Great product!\"}")]

DEFAULT_MARKOV_CHAIN == NamedDraft(DEFAULT_MARKOV_CHAIN_states, "homepage", "E-commerce User Journey")

\* default_chains.py DEFAULT_CHAINS: a dict, in insertion order
DEFAULT_CHAINS ==
    <<[key |-> "ecommerce", chain |-> ECOMMERCE_CHAIN],
      [key |-> "social_media", chain |-> SOCIAL_MEDIA_CHAIN],
      [key |-> "streaming", chain |-> STREAMING_PLATFORM_CHAIN]>>

DefaultKeys == {DEFAULT_CHAINS[i].key : i \in 1..Len(DEFAULT_CHAINS)}

\* What the remote side does with one request.
Resp(status, body) == [kind |-> "response", status |-> status, body |-> body]
Timeout == [kind |-> "timeout", status |-> 0, body |-> ""]
ConnectError == [kind |-> "connect_error", status |-> 0, body |-> ""]
Outcomes == {Resp(200, "json_object"), Resp(500, "json_object"), Timeout, ConnectError}
ServiceOutcomes == {Resp(200, "json_object"), Timeout}
AnsweredOutcomes == {Resp(200, "json_object")}
\* Delivered responses by body: a JSON object, JSON of another type (array,
\* string, number, null), text that is not JSON.
BodyOutcomes == {Resp(200, "json_object"), Resp(200, "json_other"), Resp(200, "text")}

\* Calls that are answered with an error status, by body, or time out.
StatusOutcomes ==
    {Resp(404, "json_object"), Resp(500, "json_other"), Resp(503, "text"), Timeout}

\* ------------------------------------------------------------------ results
Pending(agent_id) ==
    [kind |-> "pending", agent_id |-> agent_id, data |-> "", http_status |-> 0]
Raised(agent_id, cause) ==
    [kind |-> "exception", agent_id |-> agent_id, data |-> cause, http_status |-> 0]
AgentResponse(agent_id, agent_name, data, http_status) ==
    [kind |-> "response", agent_id |-> agent_id, agent_name |-> agent_name,
     data |-> data, http_status |-> http_status]

\* MarkovSimulator._notify_agent up to its first suspension: the assertion
notify_begin(agent_id, active) ==
    IF active THEN Pending(agent_id) ELSE Raised(agent_id, "AssertionError")

\* MarkovSimulator._notify_agent from the end of the HTTP call (a timeout
\* and a connection failure are both httpx.TransportError); the record is
\* built from agent.id and agent.name as the object holds them then
notify_end(agent_id, o) ==
    IF o.kind # "response" THEN Raised(agent_id, "TransportError")
    ELSE IF o.body = "json_object"
         THEN AgentResponse(agent_obj[agent_id].id, agent_obj[agent_id].name,
                            "decoded", o.status)
    ELSE IF o.body = "json_other" THEN Raised(agent_id, "ValidationError")
    ELSE AgentResponse(agent_obj[agent_id].id, agent_obj[agent_id].name,
                       "raw_response", o.status)

\* -------------------------------------------------------------------- store
\* Database.get_active_agents: the active agents, in the dict's order
IsActive(agent_id) == agent_obj[agent_id].active

get_all_agents == agents_db

\* the query without its filter
get_active_agents_unfiltered == agents_db

get_active_agents == SelectSeq(agents_db, IsActive)

\* a step list shared by every Simulation object
add_step_to_simulation_shared(sims, id, step) ==
    IF id \in DOMAIN sims
    THEN [k \in DOMAIN sims |-> [sims[k] EXCEPT !.steps = Append(@, step)]]
    ELSE sims

\* a store that puts the newest step first
add_step_to_simulation_prepend(sims, id, step) ==
    IF id \in DOMAIN sims
    THEN [sims EXCEPT ![id].steps = <<step>> \o @]
    ELSE sims

\* Database.add_step_to_simulation
add_step_to_simulation(sims, id, step) ==
    IF id \in DOMAIN sims
    THEN [sims EXCEPT ![id].steps = Append(@, step)]
    ELSE sims

\* a store that finalizes every simulation it holds
complete_simulation_all(sims, id, time) ==
    IF id \in DOMAIN sims
    THEN [k \in DOMAIN sims |-> [sims[k] EXCEPT !.end_time = time]]
    ELSE sims

\* Database.complete_simulation
complete_simulation(sims, id, time) ==
    IF id \in DOMAIN sims
    THEN [sims EXCEPT ![id].end_time = time]
    ELSE sims

\* Simulation(chain_id=...): the defaults of the model class
Simulation(id, chain_id, time) ==
    [id |-> id, chain_id |-> chain_id, steps |-> <<>>,
     start_time |-> time, end_time |-> NoTime]

\* datetime.now() at finalization: the clock may or may not have advanced
\* since the simulation was created
ClockReads == {now, now + 1}

\* ------------------------------------------------------------ initial state
\* db["markov_chains"] as the module creates it
\* The module globals default_chain_ids = {} and default_chain_id = NoId
RegistryEmpty ==
    /\ default_chain_ids = <<>>
    /\ default_chain_id = NoId

ChainsEmpty ==
    /\ markov_chains = <<>>
    /\ chain_uuid = 0
    /\ draft = NoDraft
    /\ verdict = 0
    /\ RegistryEmpty

\* db["markov_chains"] after one accepted create_markov_chain(d)
ChainStocked(d) ==
    /\ markov_chains = (1 :> MarkovChain(1, d))
    /\ chain_uuid = 1
    /\ draft = d
    /\ verdict = 200
    /\ RegistryEmpty

\* The url and the name a client registers its i-th agent with
AgentUrl(i) == <<"http://agent", i>>
AgentName(i) == <<"agent", i>>

\* Agent(**agent.model_dump()): the i-th registered agent, uuid4 as a
\* counter, no description given, active by default
Agent(i) ==
    [id |-> i, url |-> AgentUrl(i), name |-> AgentName(i), description |-> <<>>,
     active |-> TRUE]

\* AgentUpdate(): every field None (None is the empty sequence, a value v
\* is <<v>>)
NoUpdate == [url |-> <<>>, name |-> <<>>, description |-> <<>>, active |-> <<>>]

\* The AgentUpdate bodies of the PATCH requests: no field, one field,
\* several fields
AgentUpdates ==
    {NoUpdate,
     [NoUpdate EXCEPT !.name = <<<<"renamed", 0>>>>],
     [NoUpdate EXCEPT !.active = <<FALSE>>],
     [NoUpdate EXCEPT !.active = <<TRUE>>],
     [NoUpdate EXCEPT !.url = <<<<"http://moved", 0>>>>,
                      !.description = <<<<"described", 0>>>>]}

\* No request to an agent route recorded
NoCall == [route |-> None, agent_id |-> 0, update |-> NoUpdate, status |-> 0]

\* db["agents"] after up to kmax register_agent calls, each agent left
\* active or deactivated by update_agent (kmax = 0: as the module creates it)
AgentsStocked(kmax) ==
    \E k \in 0..kmax :
       /\ \E flags \in [1..k -> BOOLEAN] :
             agent_obj = [i \in 1..k |-> [Agent(i) EXCEPT !.active = flags[i]]]
       /\ agents_db = [i \in 1..k |-> i]
       /\ agent_call = NoCall

\* The locals of a run_simulation task that has not been called
IdleLocals ==
    [pc |-> "idle", arg_chain_id |-> 0, num_steps |-> 0, chain |-> NoChain,
     run_agents |-> <<>>, simulation_id |-> 0, current_state_name |-> None,
     step_no |-> 0, agent_responses |-> <<>>, inflight |-> {}, sent |-> <<>>,
     finished |-> <<>>, snapshot_uuid |-> 0, drawn |-> NoDraw, requests |-> <<>>,
     todo |-> <<>>, asked |-> NoRequest]

\* No simulation stored, no run in progress
RunIdle ==
    /\ simulations = <<>>
    /\ now = 0
    /\ pc = "idle"
    /\ arg_chain_id = 0
    /\ num_steps = 0
    /\ chain = NoChain
    /\ run_agents = <<>>
    /\ simulation_id = 0
    /\ current_state_name = None
    /\ step_no = 0
    /\ agent_responses = <<>>
    /\ inflight = {}
    /\ sent = <<>>
    /\ finished = <<>>
    /\ snapshot_uuid = 0
    /\ drawn = NoDraw
    /\ warnings = {}
    /\ requests = <<>>
    /\ other = IdleLocals
    /\ todo = <<>>
    /\ asked = NoRequest

Init == ChainsEmpty /\ AgentsStocked(0) /\ RunIdle

\* ------------------------------------------------------------ chain routes
\* The handler with the body stored before the MarkovChain is constructed.
\*
\* routers/markov.py create_markov_chain: the body is parsed as a
\* MarkovChainCreate (422 on failure), MarkovChain(...) is constructed (its
\* ValidationError is unhandled: 500), and only then the chain is stored.
CreateMarkovChainStoreFirst(d) ==
    /\ chain_uuid < MaxChains
    /\ draft' = d
    /\ IF ~MarkovChainCreateValid(d)
       THEN /\ verdict' = 422
            /\ UNCHANGED <<markov_chains, chain_uuid>>
       ELSE /\ verdict' = IF MarkovChainValid(d) THEN 200 ELSE 500
            /\ chain_uuid' = chain_uuid + 1
            /\ markov_chains' =
                 markov_chains @@ (chain_uuid + 1 :> MarkovChain(chain_uuid + 1, d))
    /\ UNCHANGED <<default_chain_ids, default_chain_id, agentVars, simulations, now,
                   runVars>>

CreateMarkovChain(d) ==
    /\ chain_uuid < MaxChains
    /\ draft' = d
    /\ IF ~MarkovChainCreateValid(d)
       THEN /\ verdict' = 422
            /\ UNCHANGED <<markov_chains, chain_uuid>>
       ELSE IF ~MarkovChainValid(d)
       THEN /\ verdict' = 500
            /\ UNCHANGED <<markov_chains, chain_uuid>>
       ELSE /\ verdict' = 200
            /\ chain_uuid' = chain_uuid + 1
            /\ markov_chains' =
                 markov_chains @@ (chain_uuid + 1 :> MarkovChain(chain_uuid + 1, d))
    /\ UNCHANGED <<default_chain_ids, default_chain_id, agentVars, simulations, now,
                   runVars>>

\* a delete that also removes the simulations of the chain
DeleteMarkovChainCascade(id) ==
    /\ id \in DOMAIN markov_chains
    /\ markov_chains' = [k \in DOMAIN markov_chains \ {id} |-> markov_chains[k]]
    /\ simulations' = [k \in {j \in DOMAIN simulations : simulations[j].chain_id # id}
                          |-> simulations[k]]
    /\ UNCHANGED <<chain_uuid, draft, verdict, default_chain_ids, default_chain_id,
                   agentVars, now, runVars>>

\* routers/markov.py delete_markov_chain / Database.delete_markov_chain
DeleteMarkovChain(id) ==
    /\ id \in DOMAIN markov_chains
    /\ markov_chains' = [k \in DOMAIN markov_chains \ {id} |-> markov_chains[k]]
    /\ UNCHANGED <<chain_uuid, draft, verdict, default_chain_ids, default_chain_id,
                   agentVars, simulations, now, runVars>>

\* ------------------------------------------------------------ agent routes
\* agent_id in db["agents"]
has_agent(agent_id) == \E i \in 1..Len(agents_db) : agents_db[i] = agent_id

\* routers/agent.py register_agent / Database.create_agent
register_agent ==
    /\ Len(agent_obj) < MaxAgents
    /\ agent_obj' = Append(agent_obj, Agent(Len(agent_obj) + 1))
    /\ agents_db' = Append(agents_db, Len(agent_obj) + 1)

\* routers/agent.py update_agent, line 55: the items of the body whose value
\* is not None
update_dict(update_data) ==
    [k \in {f \in DOMAIN update_data : update_data[f] # <<>>} |-> update_data[k][1]]

\* an update that builds the object anew from the items it was given
setattr_items_rebuild(agent, data) ==
    [k \in DOMAIN agent |-> IF k \in DOMAIN data THEN data[k] ELSE Agent(agent.id)[k]]

\* Database.update_agent, lines 90-92: setattr for each item of data (every
\* key of an AgentUpdate is an attribute of Agent)
setattr_items(agent, data) ==
    [k \in DOMAIN agent |-> IF k \in DOMAIN data THEN data[k] ELSE agent[k]]

\* Database.update_agent: the stored object itself is changed; an id that
\* is not a key changes nothing
update_agent(agent_id, data) ==
    /\ agent_obj' = IF has_agent(agent_id)
                    THEN [agent_obj EXCEPT ![agent_id] = setattr_items(@, data)]
                    ELSE agent_obj
    /\ agents_db' = agents_db

\* Database.delete_agent: the key leaves the dict, the object lives on
\* wherever it is still referenced; an id that is not a key changes nothing
delete_agent(agent_id) ==
    /\ agents_db' = SelectSeq(agents_db, LAMBDA a : a # agent_id)
    /\ agent_obj' = agent_obj

\* routers/agent.py update_agent and delete_agent: 404 when the store
\* reports that it does not hold the id
found_or_404(agent_id) == IF has_agent(agent_id) THEN 200 ELSE 404

\* History of the agent routes: the request and the status it was answered
\* with
Answered(route, agent_id, update_data, status) ==
    agent_call' = [route |-> route, agent_id |-> agent_id, update |-> update_data,
                   status |-> status]

\* POST /agents/register
RegisterAgent ==
    /\ register_agent
    /\ UNCHANGED <<agent_call, chainVars, simulations, now, runVars>>

\* PATCH /agents/{id} with {"active": v} on a stored agent
UpdateAgent(id, v) ==
    /\ has_agent(id)
    /\ agent_obj[id].active # v
    /\ update_agent(id, update_dict([NoUpdate EXCEPT !.active = <<v>>]))
    /\ UNCHANGED <<agent_call, chainVars, simulations, now, runVars>>

\* DELETE /agents/{id} on a stored agent
DeleteAgent(id) ==
    /\ has_agent(id)
    /\ delete_agent(id)
    /\ UNCHANGED <<agent_call, chainVars, simulations, now, runVars>>

\* The three agent routes with any id and any body, the request recorded
RegisterAgentRequest ==
    /\ register_agent
    /\ Answered("register", Len(agent_obj) + 1, NoUpdate, 200)
    /\ UNCHANGED <<chainVars, simulations, now, runVars>>

UpdateAgentRequest(id, update_data) ==
    /\ update_agent(id, update_dict(update_data))
    /\ Answered("update", id, update_data, found_or_404(id))
    /\ UNCHANGED <<chainVars, simulations, now, runVars>>

DeleteAgentRequest(id) ==
    /\ delete_agent(id)
    /\ Answered("delete", id, NoUpdate, found_or_404(id))
    /\ UNCHANGED <<chainVars, simulations, now, runVars>>

\* --------------------------------------------------------- simulation driver
\* The driver is one asyncio task. Between two suspensions it runs alone; it
\* suspends only in "await asyncio.gather(...)". The store's coroutines never
\* suspend. (With an empty agent list gather does not suspend either; the
\* model takes the same steps there, which only adds interleavings.)

\* a loop that stops one iteration early
range_continues_off_by_one(done, n) == done + 1 < n

\* a loop that ends once the chain of the run has left the store
range_continues_while_stored(done, n) ==
    done < n /\ arg_chain_id \in DOMAIN markov_chains

\* for _ in range(num_steps): is another iteration due after `done` of them
range_continues(done, n) == done < n

\* SimulationStep(state_name=..., http_method=..., payload=...)
SimulationStep(state) ==
    [state_name |-> state.name, http_method |-> state.http_method,
     payload |-> state.payload, agent_responses |-> <<>>]

\* the processing loop left at the first exception
RECURSIVE collect_stop_at_exception(_)
collect_stop_at_exception(responses) ==
    IF responses = <<>> THEN <<>>
    ELSE IF Head(responses).kind = "exception" THEN <<>>
    ELSE <<Head(responses)>> \o collect_stop_at_exception(Tail(responses))

\* the results taken in the order the calls ended (asyncio.as_completed)
collect_as_completed(responses) ==
    SelectSeq([j \in 1..Len(finished) |->
                 CHOOSE r \in {responses[i] : i \in 1..Len(responses)} :
                    r.agent_id = finished[j]],
              LAMBDA r : r.kind # "exception")

\* a processing loop that goes over the results twice
collect_doubled(responses) ==
    SelectSeq(responses, LAMBDA r : r.kind # "exception")
       \o SelectSeq(responses, LAMBDA r : r.kind # "exception")

\* _execute_step, lines 105-112: the results in list order, exceptions skipped
collect(responses) ==
    SelectSeq(responses, LAMBDA r : r.kind # "exception")

\* a wait that ends with the first finished task
gather_done_on_first(responses) ==
    \E i \in 1..Len(responses) : responses[i].kind # "pending"

\* a wait for as many records as there are agents
gather_done_when_all_answer(responses) ==
    \A i \in 1..Len(responses) : responses[i].kind = "response"

\* asyncio.gather(..., return_exceptions=True) is done when every task is
gather_done(responses) ==
    \A i \in 1..Len(responses) : responses[i].kind # "pending"

\* the active agents read again for each step
step_agents_reread == get_active_agents

\* The agents a step is executed for: the list read once, before the loop
step_agents == run_agents

\* run_simulation with the Simulation created before the chain lookup
RunSimulationCreateFirst(cid, n) ==
    /\ pc = "idle"
    /\ arg_chain_id' = cid
    /\ num_steps' = n
    /\ now' = now
    /\ simulation_id' = Cardinality(DOMAIN simulations) + 1
    /\ simulations' = simulations @@
         (simulation_id' :> Simulation(simulation_id', cid, now'))
    /\ IF cid \notin DOMAIN markov_chains
       THEN /\ pc' = "failed404"
            /\ UNCHANGED <<chain, run_agents, current_state_name, step_no,
                           snapshot_uuid>>
       ELSE /\ chain' = markov_chains[cid]
            /\ run_agents' = get_active_agents
            /\ snapshot_uuid' = Len(agent_obj)
            /\ current_state_name' = markov_chains[cid].initial_state
            /\ step_no' = 1
            /\ pc' = "gather"
    /\ UNCHANGED <<chainVars, agentVars, agent_responses, inflight, sent, finished,
                   drawn, warnings, requests, other, todo, asked>>

\* run_simulation, lines 50-68, from the call to the first gather; with
\* num_steps below 1 the loop has no iteration and lines 77-80 follow at once
run_simulation(cid, n) ==
    /\ arg_chain_id' = cid
    /\ num_steps' = n
    /\ IF cid \notin DOMAIN markov_chains
       THEN /\ pc' = "failed404"
            /\ UNCHANGED <<chain, run_agents, simulation_id, current_state_name,
                           step_no, snapshot_uuid, simulations, now>>
       ELSE /\ chain' = markov_chains[cid]
            /\ run_agents' = get_active_agents
            /\ snapshot_uuid' = Len(agent_obj)
            /\ simulation_id' = Cardinality(DOMAIN simulations) + 1
            /\ current_state_name' = markov_chains[cid].initial_state
            /\ IF range_continues(0, n)
               THEN /\ now' = now
                    /\ simulations' = simulations @@
                         (simulation_id' :> Simulation(simulation_id', cid, now'))
                    /\ step_no' = 1
                    /\ pc' = "gather"
               ELSE /\ now' \in ClockReads
                    /\ simulations' = simulations @@
                         (simulation_id' :>
                            [Simulation(simulation_id', cid, now) EXCEPT
                                !.end_time = now'])
                    /\ step_no' = 0
                    /\ pc' = "done"
    /\ UNCHANGED <<chainVars, agentVars, agent_responses, inflight, sent, finished,
                   drawn, warnings, requests, other>>

\* MarkovSimulator.run_simulation called on the simulator itself
RunSimulation(cid, n) ==
    /\ pc = "idle"
    /\ run_simulation(cid, n)
    /\ UNCHANGED <<todo, asked>>

\* a notifier that sends the payload as a JSON body whatever the verb
build_request_always_json(url, method, payload) ==
    [method |-> method, url |-> url, params |-> None, json |-> payload,
     headers |-> {<<"X-Simulation", "true">>,
                  <<"Content-Type", "application/json">>}]

\* _notify_agent, lines 134-146: client.get(url, params=payload, headers=...)
\* for GET, client.request(method, url, json=payload, headers=...) otherwise
build_request(url, method, payload) ==
    IF method = "GET"
    THEN [method |-> "GET", url |-> url, params |-> payload, json |-> None,
          headers |-> {<<"X-Simulation", "true">>}]
    ELSE [method |-> method, url |-> url, params |-> None, json |-> payload,
          headers |-> {<<"X-Simulation", "true">>,
                       <<"Content-Type", "application/json">>}]

\* The tasks gather created run to their first suspension, one after the
\* other in list order: each checks its assertion and opens its request.
TasksStart ==
    /\ pc = "gather"
    /\ agent_responses' =
         [i \in 1..Len(step_agents) |->
            notify_begin(step_agents[i], IsActive(step_agents[i]))]
    /\ inflight' = inflight \cup
         {<<step_no, step_agents[i]>> : i \in {j \in 1..Len(step_agents) :
                                                  IsActive(step_agents[j])}}
    /\ sent' = sent \o
         [i \in 1..Len(SelectSeq(step_agents, IsActive)) |->
            <<step_no, SelectSeq(step_agents, IsActive)[i]>>]
    /\ requests' = requests \o
         [i \in 1..Len(SelectSeq(step_agents, IsActive)) |->
            build_request(agent_obj[SelectSeq(step_agents, IsActive)[i]].url,
                          chain.states[current_state_name].http_method,
                          chain.states[current_state_name].payload)]
    /\ finished' = <<>>
    /\ pc' = "await"
    /\ UNCHANGED <<chainVars, agentVars, simulations, now, arg_chain_id, num_steps,
                   chain, run_agents, simulation_id, current_state_name, step_no,
                   snapshot_uuid, drawn, warnings, other, todo, asked>>

\* _notify_agent, lines 163-165: the warning logged before an exception
\* raised inside the try block is raised again
log_raise(sim, k, result) ==
    IF result.kind = "exception" THEN {<<sim, k, result.agent_id>>} ELSE {}

\* a notifier that sends a failed request once more
NotifyReturnRetry(k, a, o) ==
    /\ <<k, a>> \in inflight
    /\ IF o.kind # "response" /\ Cardinality({j \in 1..Len(sent) : sent[j] = <<k, a>>}) < 2
       THEN /\ sent' = Append(sent, <<k, a>>)
            /\ UNCHANGED <<inflight, agent_responses, warnings>>
       ELSE /\ inflight' = inflight \ {<<k, a>>}
            /\ sent' = sent
            /\ agent_responses' =
                 [i \in DOMAIN agent_responses |->
                    IF k = step_no /\ agent_responses[i] = Pending(a)
                    THEN notify_end(a, o)
                    ELSE agent_responses[i]]
            /\ warnings' = warnings \cup log_raise(simulation_id, k, notify_end(a, o))
    /\ UNCHANGED <<chainVars, agentVars, simulations, now, pc, arg_chain_id,
                   num_steps, chain, run_agents, simulation_id, current_state_name,
                   step_no, snapshot_uuid, drawn, requests, other, todo, asked>>

\* One open request ends (response, timeout or transport error) and its task
\* finishes: the result lands in the task's slot of the gather.
NotifyReturn(k, a, o) ==
    /\ <<k, a>> \in inflight
    /\ inflight' = inflight \ {<<k, a>>}
    /\ agent_responses' =
         [i \in DOMAIN agent_responses |->
            IF k = step_no /\ agent_responses[i] = Pending(a)
            THEN notify_end(a, o)
            ELSE agent_responses[i]]
    /\ warnings' = warnings \cup log_raise(simulation_id, k, notify_end(a, o))
    /\ UNCHANGED <<chainVars, agentVars, simulations, now, pc, arg_chain_id,
                   num_steps, chain, run_agents, simulation_id, current_state_name,
                   step_no, sent, snapshot_uuid, drawn, requests, other, todo, asked>>

\* History of a step: the order in which its calls ended.
Observe(a) == finished' = Append(finished, a)

\* History of the sampler: the value random.random() returned.
Sampled(rand) == drawn' = rand

\* the processing loop without its warning
log_failures_silent(responses) == {}

\* _execute_step, lines 106-108: the agents a warning is logged for
log_failures(responses) ==
    {responses[i].agent_id : i \in {j \in 1..Len(responses) :
                                       responses[j].kind = "exception"}}

\* The gather is done and the driver resumes: _execute_step lines 105-114,
\* run_simulation lines 71-74, then either the next iteration up to its
\* gather or lines 77-80 (line 78: the assertion fails when the simulation
\* is no longer stored).
StepDone(rand) ==
    /\ pc = "await"
    /\ gather_done(agent_responses)
    /\ LET current_state == chain.states[current_state_name]
           step == [SimulationStep(current_state) EXCEPT
                       !.agent_responses = collect(agent_responses)]
           appended == add_step_to_simulation(simulations, simulation_id, step)
       IN  /\ current_state_name' = _choose_next_state(current_state, rand)
           /\ IF range_continues(step_no, num_steps)
              THEN /\ simulations' = appended
                   /\ step_no' = step_no + 1
                   /\ pc' = "gather"
                   /\ now' = now
              ELSE /\ now' \in ClockReads
                   /\ simulations' = complete_simulation(appended, simulation_id, now')
                   /\ step_no' = step_no
                   /\ pc' = IF simulation_id \in DOMAIN appended
                            THEN "done" ELSE "crashed"
    /\ warnings' = warnings \cup
         {<<simulation_id, step_no, a>> : a \in log_failures(agent_responses)}
    /\ UNCHANGED <<chainVars, agentVars, arg_chain_id, num_steps, chain, run_agents,
                   simulation_id, agent_responses, inflight, sent, finished,
                   snapshot_uuid, requests, other, todo, asked>>

\* run_simulation has returned the Simulation (line 80); the client may ask
\* for another run.
Return ==
    /\ pc = "done"
    /\ todo = <<>>
    /\ Cardinality(DOMAIN simulations) < MaxRuns
    /\ pc' = "idle"
    /\ UNCHANGED <<chainVars, agentVars, simulations, now, arg_chain_id, num_steps,
                   chain, run_agents, simulation_id, current_state_name, step_no,
                   agent_responses, inflight, sent, finished, snapshot_uuid, drawn,
                   warnings, requests, other, todo, asked>>

\* The client of a failed request may ask again.
Retry ==
    /\ pc \in {"failed404", "failed422", "failed500"}
    /\ pc' = "idle"
    /\ UNCHANGED <<chainVars, agentVars, simulations, now, arg_chain_id, num_steps,
                   chain, run_agents, simulation_id, current_state_name, step_no,
                   agent_responses, inflight, sent, finished, snapshot_uuid, drawn,
                   warnings, requests, other, todo, asked>>

\* ------------------------------------------------------------ two tasks
\* The locals of the run_simulation task the event loop is running
Locals ==
    [pc |-> pc, arg_chain_id |-> arg_chain_id, num_steps |-> num_steps,
     chain |-> chain, run_agents |-> run_agents, simulation_id |-> simulation_id,
     current_state_name |-> current_state_name, step_no |-> step_no,
     agent_responses |-> agent_responses, inflight |-> inflight, sent |-> sent,
     finished |-> finished, snapshot_uuid |-> snapshot_uuid, drawn |-> drawn,
     requests |-> requests, todo |-> todo, asked |-> asked]

\* Two requests are handled by two tasks of one event loop. A task gives up
\* control only where it is suspended: before run_simulation is called, in
\* "await asyncio.gather(...)" and after it has returned. The event loop
\* then runs steps of the other task, whose locals become the current ones.
Switch ==
    /\ pc # "gather"
    /\ ~(pc = "idle" /\ other.pc = "idle")
    /\ other' = Locals
    /\ pc' = other.pc
    /\ arg_chain_id' = other.arg_chain_id
    /\ num_steps' = other.num_steps
    /\ chain' = other.chain
    /\ run_agents' = other.run_agents
    /\ simulation_id' = other.simulation_id
    /\ current_state_name' = other.current_state_name
    /\ step_no' = other.step_no
    /\ agent_responses' = other.agent_responses
    /\ inflight' = other.inflight
    /\ sent' = other.sent
    /\ finished' = other.finished
    /\ snapshot_uuid' = other.snapshot_uuid
    /\ drawn' = other.drawn
    /\ requests' = other.requests
    /\ todo' = other.todo
    /\ asked' = other.asked
    /\ UNCHANGED <<chainVars, agentVars, simulations, now, warnings>>

\* ------------------------------------------------------- built-in chains: routes
\* default_chain_ids is a dict: its items in insertion order
registry_keys(reg) == {reg[i].key : i \in 1..Len(reg)}

\* default_chains[chain_key]
registry_get(reg, key) == reg[CHOOSE i \in 1..Len(reg) : reg[i].key = key].id

\* default_chain_ids[key] = id
registry_set(reg, key, id) ==
    IF key \in registry_keys(reg)
    THEN [i \in 1..Len(reg) |->
            IF reg[i].key = key THEN [key |-> key, id |-> id] ELSE reg[i]]
    ELSE Append(reg, [key |-> key, id |-> id])

\* The ids of a set in rising order
RECURSIVE Rising(_)
Rising(ids) ==
    IF ids = {} THEN <<>>
    ELSE LET least == CHOOSE i \in ids : \A j \in ids : i <= j
         IN  <<least>> \o Rising(ids \ {least})

\* Database.get_all_markov_chains: the dict's values in insertion order,
\* which is the order the ids were handed out in
get_all_markov_chains == Rising(DOMAIN markov_chains)

\* create_default_markov_chains, lines 590-613: the loop over DEFAULT_CHAINS
\* from its i-th item on; a chain that fails validation is logged and left out
RECURSIVE create_each(_, _)
create_each(i, acc) ==
    IF i > Len(DEFAULT_CHAINS) THEN acc
    ELSE IF MarkovChainValid(DEFAULT_CHAINS[i].chain)
    THEN create_each(i + 1,
            [chains |-> acc.chains @@
                          (acc.uuid + 1 :> MarkovChain(acc.uuid + 1, DEFAULT_CHAINS[i].chain)),
             uuid |-> acc.uuid + 1,
             ids |-> registry_set(acc.ids, DEFAULT_CHAINS[i].key, acc.uuid + 1)])
    ELSE create_each(i + 1, acc)

\* create_default_markov_chains, lines 616-620: the loop over the stored
\* chains `ids`, and for each over DEFAULT_CHAINS from its i-th item on
RECURSIVE map_by_name(_, _, _)
map_by_name(ids, i, reg) ==
    IF ids = <<>> THEN reg
    ELSE IF i > Len(DEFAULT_CHAINS) THEN map_by_name(Tail(ids), 1, reg)
    ELSE map_by_name(ids, i + 1,
            IF markov_chains[Head(ids)].name = DEFAULT_CHAINS[i].chain.name
            THEN registry_set(reg, DEFAULT_CHAINS[i].key, Head(ids))
            ELSE reg)

\* a seeding that does not look at what the store holds
CreateDefaultMarkovChainsAlways ==
    /\ pc = "idle"
    /\ chain_uuid < MaxChains + Len(DEFAULT_CHAINS)
    /\ LET created == create_each(1, [chains |-> markov_chains,
                                      uuid |-> chain_uuid,
                                      ids |-> default_chain_ids])
       IN  /\ markov_chains' = created.chains
           /\ chain_uuid' = created.uuid
           /\ default_chain_ids' = created.ids
    /\ UNCHANGED <<draft, verdict, default_chain_id, agentVars, simulations, now,
                   runVars>>

\* default_chains.py create_default_markov_chains, called between requests
\* (no await in it suspends)
CreateDefaultMarkovChains ==
    /\ pc = "idle"
    /\ markov_chains = <<>> => chain_uuid < MaxChains
    /\ IF get_all_markov_chains = <<>>
       THEN LET created == create_each(1, [chains |-> markov_chains,
                                           uuid |-> chain_uuid,
                                           ids |-> default_chain_ids])
            IN  /\ markov_chains' = created.chains
                /\ chain_uuid' = created.uuid
                /\ default_chain_ids' = created.ids
       ELSE /\ default_chain_ids' = map_by_name(get_all_markov_chains, 1, default_chain_ids)
            /\ UNCHANGED <<markov_chains, chain_uuid>>
    /\ UNCHANGED <<draft, verdict, default_chain_id, agentVars, simulations, now,
                   runVars>>

\* main.py startup_event: init_db touches nothing, create_default_markov_chain
\* stores DEFAULT_MARKOV_CHAIN when the store is empty and remembers the id of
\* that chain, or of the first chain stored, in default_chain_id
Startup ==
    /\ default_chain_id = NoId
    /\ pc = "idle"
    /\ IF get_all_markov_chains = <<>>
       THEN IF MarkovChainValid(DEFAULT_MARKOV_CHAIN)
            THEN /\ chain_uuid' = chain_uuid + 1
                 /\ markov_chains' = markov_chains @@
                      (chain_uuid + 1 :> MarkovChain(chain_uuid + 1, DEFAULT_MARKOV_CHAIN))
                 /\ default_chain_id' = chain_uuid + 1
            ELSE UNCHANGED <<chain_uuid, markov_chains, default_chain_id>>
       ELSE /\ default_chain_id' = Head(get_all_markov_chains)
            /\ UNCHANGED <<chain_uuid, markov_chains>>
    /\ UNCHANGED <<draft, verdict, default_chain_ids, agentVars, simulations, now,
                   runVars>>

\* ------------------------------------------------------- simulation routes
StepsLow == 1
StepsHigh == 100
QueryGe == 1
QueryLe == 100

\* a validator without the upper limit
validate_steps_no_upper(v) == StepsLow <= v

\* SimulationCreate.validate_steps: assert 1 <= v <= 100
validate_steps(v) == StepsLow <= v /\ v <= StepsHigh

\* steps: int = Query(10, ge=1, le=100)
QuerySteps(v) == v >= QueryGe /\ v <= QueryLe

\* A request answered with an error status: no handler state changes
Rejected(status) ==
    /\ pc' = status
    /\ UNCHANGED <<chainVars, agentVars, simulations, now, arg_chain_id, num_steps,
                   chain, run_agents, simulation_id, current_state_name, step_no,
                   agent_responses, inflight, sent, finished, snapshot_uuid, drawn,
                   warnings, requests, other>>

\* routers/simulation.py create_simulation: the body is parsed as a
\* SimulationCreate (422 on failure), the chain is looked up (404), and
\* run_simulation is called
CreateSimulation(cid, steps) ==
    /\ pc = "idle"
    /\ asked' = [route |-> "create", key |-> None, chain_id |-> cid, steps |-> steps]
    /\ todo' = <<>>
    /\ IF ~validate_steps(steps) THEN Rejected("failed422")
       ELSE IF cid \notin DOMAIN markov_chains THEN Rejected("failed404")
       ELSE run_simulation(cid, steps)

\* routers/simulation.py run_default_simulation
RunDefaultSimulation(key, steps) ==
    /\ pc = "idle"
    /\ asked' = [route |-> "default", key |-> key, chain_id |-> 0, steps |-> steps]
    /\ todo' = <<>>
    /\ IF ~QuerySteps(steps) THEN Rejected("failed422")
       ELSE IF default_chain_ids = <<>> THEN Rejected("failed404")
       ELSE IF key \notin registry_keys(default_chain_ids) THEN Rejected("failed404")
       ELSE IF ~validate_steps(steps) THEN Rejected("failed500")
       ELSE run_simulation(registry_get(default_chain_ids, key), steps)

\* routers/simulation.py run_all_default_simulations, up to the first gather
\* of the first run: the loop is over the items the registry holds
RunAllDefaultSimulations(steps) ==
    /\ pc = "idle"
    /\ asked' = [route |-> "all", key |-> None, chain_id |-> 0, steps |-> steps]
    /\ IF ~QuerySteps(steps) THEN Rejected("failed422") /\ todo' = <<>>
       ELSE IF default_chain_ids = <<>> THEN Rejected("failed404") /\ todo' = <<>>
       ELSE /\ run_simulation(default_chain_ids[1].id, steps)
            /\ todo' = IF default_chain_ids[1].id \in DOMAIN markov_chains
                       THEN [i \in 1..(Len(default_chain_ids) - 1) |->
                               default_chain_ids[i + 1].id]
                       ELSE <<>>

\* run_all_default_simulations: a run has returned and the loop calls
\* run_simulation for the next item; an HTTPException ends the request
RunAllNext ==
    /\ pc = "done"
    /\ todo # <<>>
    /\ run_simulation(Head(todo), num_steps)
    /\ todo' = IF Head(todo) \in DOMAIN markov_chains THEN Tail(todo) ELSE <<>>
    /\ UNCHANGED asked

\* ------------------------------------------------------------ specifications
AgentIds == 1..MaxAgents
ChainIds == 1..MaxChains

\* The steps the event loop takes for a run in progress.
Driver(outs) ==
    \/ TasksStart
    \/ \E e \in inflight, o \in outs :
          NotifyReturn(e[1], e[2], o) /\ UNCHANGED finished
    \/ \E rand \in Draws : StepDone(rand) /\ UNCHANGED drawn

\* The same steps, with the completion order of the calls recorded.
DriverObserved(outs) ==
    \/ TasksStart
    \/ \E e \in inflight, o \in outs :
          NotifyReturn(e[1], e[2], o) /\ Observe(e[2])
    \/ \E rand \in Draws : StepDone(rand) /\ UNCHANGED drawn

\* The whole service: chain and agent routes interleaved with a run.
Next ==
    \/ \E d \in SpecDrafts : CreateMarkovChain(d)
    \/ \E id \in ChainIds : DeleteMarkovChain(id)
    \/ RegisterAgent
    \/ \E id \in AgentIds, v \in BOOLEAN : UpdateAgent(id, v)
    \/ \E id \in AgentIds : DeleteAgent(id)
    \/ \E cid \in ChainIds, n \in 1..MaxSteps : RunSimulation(cid, n)
    \/ Retry
    \/ Driver(ServiceOutcomes)

Spec == Init /\ [][Next]_vars

\* The agent routes interleaved with a run on a stored chain.
InitAgents == ChainStocked(PingDraft) /\ AgentsStocked(0) /\ RunIdle

NextAgents ==
    \/ RegisterAgent
    \/ \E id \in AgentIds, v \in BOOLEAN : UpdateAgent(id, v)
    \/ \E id \in AgentIds : DeleteAgent(id)
    \/ \E n \in 1..MaxSteps : RunSimulation(1, n)
    \/ Driver(AnsweredOutcomes)

SpecAgents == InitAgents /\ [][NextAgents]_vars

\* The chain routes interleaved with a run over registered agents.
InitChains == ChainsEmpty /\ AgentsStocked(MaxAgents) /\ RunIdle

NextChains ==
    \/ \E d \in SpecDrafts : CreateMarkovChain(d)
    \/ \E id \in ChainIds : DeleteMarkovChain(id)
    \/ \E cid \in ChainIds, n \in 1..MaxSteps : RunSimulation(cid, n)
    \/ Retry
    \/ Driver(ServiceOutcomes)

SpecChains == InitChains /\ [][NextChains]_vars

\* One run over a fixed store, every outcome of every call.
InitRun ==
    /\ \E d \in {ShopDraft, PingDraft} : ChainStocked(d)
    /\ AgentsStocked(MaxAgents)
    /\ RunIdle

NextRun ==
    \/ \E n \in 1..MaxSteps : RunSimulation(1, n)
    \/ Driver(Outcomes)

SpecRun == InitRun /\ [][NextRun]_vars

\* One step of fan-out over a fixed store, completion order recorded.
InitFanout == ChainStocked(ShopDraft) /\ AgentsStocked(FanoutAgents) /\ RunIdle

NextFanout ==
    \/ RunSimulation(1, 1)
    \/ DriverObserved(Outcomes)

SpecFanout == InitFanout /\ [][NextFanout]_vars

\* The validator: create-chain requests over every draft of ValidatorDrafts.
\* Initially a request with body `draft` has arrived and is not handled yet.
InitValidator ==
    /\ markov_chains = <<>>
    /\ chain_uuid = 0
    /\ draft \in ValidatorDrafts
    /\ verdict = 0
    /\ RegistryEmpty
    /\ AgentsStocked(0)
    /\ RunIdle

NextValidator ==
    \/ verdict = 0 /\ CreateMarkovChain(draft)
    \/ \E id \in ChainIds : DeleteMarkovChain(id)

SpecValidator == InitValidator /\ [][NextValidator]_vars

\* The sampler: runs over every chain of SamplerDrafts, no agent registered,
\* every draw of SampleDraws, the draw recorded.
InitSampler ==
    /\ \E d \in SamplerDrafts : ChainStocked(d)
    /\ AgentsStocked(0)
    /\ RunIdle

NextSampler ==
    \/ \E n \in 1..MaxSteps : RunSimulation(1, n)
    \/ TasksStart
    \/ \E rand \in SampleDraws : StepDone(rand) /\ Sampled(rand)

SpecSampler == InitSampler /\ [][NextSampler]_vars

\* A client that posts the ending chain or the one-state chain and runs
\* what the store holds, at most one agent registered.
InitTerminal == ChainsEmpty /\ AgentsStocked(1) /\ RunIdle

NextTerminal ==
    \/ \E d \in {EndingDraft, PingDraft} : CreateMarkovChain(d)
    \/ \E cid \in ChainIds, n \in 1..MaxSteps : RunSimulation(cid, n)
    \/ Retry
    \/ TasksStart
    \/ \E e \in inflight, o \in AnsweredOutcomes :
          NotifyReturn(e[1], e[2], o) /\ UNCHANGED finished
    \/ \E rand \in Draws : StepDone(rand) /\ Sampled(rand)

SpecTerminal == InitTerminal /\ [][NextTerminal]_vars

\* One run over a fixed store, every call answered, with any body.
NextBodies ==
    \/ \E n \in 1..MaxSteps : RunSimulation(1, n)
    \/ Driver(BodyOutcomes)

SpecBodies == InitRun /\ [][NextBodies]_vars

\* Runs one after the other over a fixed store with at most one agent.
InitRuns == ChainStocked(PingDraft) /\ AgentsStocked(1) /\ RunIdle

NextRuns ==
    \/ \E n \in 1..MaxSteps : RunSimulation(1, n)
    \/ Driver(ServiceOutcomes)
    \/ Return

SpecRuns == InitRuns /\ [][NextRuns]_vars

\* Create-chain requests, over every draft of ValidatorDrafts, against a
\* store that already holds a chain.
InitStore ==
    /\ markov_chains = (1 :> MarkovChain(1, ShopDraft))
    /\ chain_uuid = 1
    /\ draft \in ValidatorDrafts
    /\ verdict = 0
    /\ RegistryEmpty
    /\ AgentsStocked(0)
    /\ RunIdle

NextStore == verdict = 0 /\ CreateMarkovChain(draft)

SpecStore == InitStore /\ [][NextStore]_vars

\* One run over a fixed store, each call answered or timed out, under the
\* event loop's scheduling: a ready task is run, and every open request ends
\* (httpx enforces the timeout).
NextFair ==
    \/ \E n \in 1..MaxSteps : RunSimulation(1, n)
    \/ Driver(ServiceOutcomes)

FairSpecRun == InitRun /\ [][NextFair]_vars /\ WF_vars(Driver(ServiceOutcomes))

\* Agents switched off and on during a run whose calls are answered or time
\* out: both ways a call can fail.
InitLog == ChainStocked(PingDraft) /\ AgentsStocked(MaxAgents) /\ RunIdle

NextLog ==
    \/ \E id \in AgentIds, v \in BOOLEAN : UpdateAgent(id, v)
    \/ \E n \in 1..MaxSteps : RunSimulation(1, n)
    \/ Driver(ServiceOutcomes)

SpecLog == InitLog /\ [][NextLog]_vars

\* One run over a fixed store, each call answered with an error status or
\* timed out.
NextStatus ==
    \/ \E n \in 1..MaxSteps : RunSimulation(1, n)
    \/ Driver(StatusOutcomes)

SpecStatus == InitRun /\ [][NextStatus]_vars

\* Create-chain requests over every draft of SignedDrafts.
InitWeights ==
    /\ markov_chains = <<>>
    /\ chain_uuid = 0
    /\ draft \in SignedDrafts
    /\ verdict = 0
    /\ RegistryEmpty
    /\ AgentsStocked(0)
    /\ RunIdle

NextWeights == verdict = 0 /\ CreateMarkovChain(draft)

SpecWeights == InitWeights /\ [][NextWeights]_vars

\* The step counts a client asks for: around both limits of 1..100
StepsTried == {0 - 1, 0, 1, MaxSteps, 100, 101}

\* The one value of random.random() * Scale in the specifications of the
\* simulation routes, which run up to 100 steps
FixedDraws == {500000}

\* The steps of the event loop for a run whose calls are all answered
DriverAnswered ==
    \/ TasksStart
    \/ \E e \in inflight, o \in AnsweredOutcomes :
          NotifyReturn(e[1], e[2], o) /\ UNCHANGED finished
    \/ \E rand \in FixedDraws : StepDone(rand) /\ UNCHANGED drawn

\* Every chain id a store seeded with the built-in chains may hold
DefaultChainIds == 1..(MaxChains + Len(DEFAULT_CHAINS))

\* The simulation routes over a store that create_default_markov_chains
\* seeds, as the tests call it, with at most one agent registered.
InitDefaults == ChainsEmpty /\ AgentsStocked(1) /\ RunIdle

NextDefaults ==
    \/ CreateDefaultMarkovChains
    \/ \E cid \in DefaultChainIds, steps \in StepsTried : CreateSimulation(cid, steps)
    \/ \E key \in DefaultKeys \cup {"unknown"}, steps \in StepsTried :
          RunDefaultSimulation(key, steps)
    \/ \E steps \in StepsTried : RunAllDefaultSimulations(steps)
    \/ RunAllNext
    \/ DriverAnswered
    \/ Retry

SpecDefaults == InitDefaults /\ [][NextDefaults]_vars

\* The application as main.py starts it: the startup handler runs, then the
\* simulation routes are served, with at most one agent registered. (The
\* loop of run_all_default_simulations is left out: with the registry the
\* startup handler leaves, the request ends before the loop.)
Started == default_chain_id # NoId

InitService == ChainsEmpty /\ AgentsStocked(1) /\ RunIdle

NextService ==
    \/ Startup
    \/ Started /\ \E cid \in ChainIds, steps \in StepsTried : CreateSimulation(cid, steps)
    \/ Started /\ \E key \in DefaultKeys \cup {"unknown"}, steps \in StepsTried :
                     RunDefaultSimulation(key, steps)
    \/ Started /\ \E steps \in StepsTried : RunAllDefaultSimulations(steps)
    \/ DriverAnswered
    \/ Retry

SpecService == InitService /\ [][NextService]_vars

\* Two runs at a time, over a store that holds two chains and at most one
\* agent, each call answered or timed out.
InitConcurrent ==
    /\ markov_chains = (1 :> MarkovChain(1, ShopDraft)) @@ (2 :> MarkovChain(2, PingDraft))
    /\ chain_uuid = 2
    /\ draft = PingDraft
    /\ verdict = 200
    /\ RegistryEmpty
    /\ AgentsStocked(1)
    /\ RunIdle

NextConcurrent ==
    \/ \E cid \in {1, 2}, n \in 1..MaxSteps : RunSimulation(cid, n)
    \/ Driver(ServiceOutcomes)
    \/ Switch

SpecConcurrent == InitConcurrent /\ [][NextConcurrent]_vars

\* A client posts a draft of NameDrafts and runs the stored chain, no agent
\* registered.
InitNames ==
    /\ markov_chains = <<>>
    /\ chain_uuid = 0
    /\ draft \in NameDrafts
    /\ verdict = 0
    /\ RegistryEmpty
    /\ AgentsStocked(0)
    /\ RunIdle

NextNames ==
    \/ verdict = 0 /\ CreateMarkovChain(draft)
    \/ \E n \in 1..MaxSteps : RunSimulation(1, n)
    \/ Retry
    \/ TasksStart
    \/ \E rand \in Draws : StepDone(rand) /\ UNCHANGED drawn

SpecNames == InitNames /\ [][NextNames]_vars

\* The default-simulation route over a seeded store whose chains the
\* delete route removes, create_default_markov_chains called at any time
\* between requests.
InitRegistry == ChainsEmpty /\ AgentsStocked(1) /\ RunIdle

NextRegistry ==
    \/ CreateDefaultMarkovChains
    \/ \E id \in DefaultChainIds : DeleteMarkovChain(id)
    \/ \E key \in DefaultKeys : RunDefaultSimulation(key, 1)
    \/ DriverAnswered
    \/ Retry

SpecRegistry == InitRegistry /\ [][NextRegistry]_vars

\* The agent routes alone, with ids the store holds and ids it does not.
InitPatch == ChainsEmpty /\ AgentsStocked(0) /\ RunIdle

NextPatch ==
    \/ RegisterAgentRequest
    \/ \E id \in 1..(MaxAgents + 1), update_data \in AgentUpdates :
          UpdateAgentRequest(id, update_data)
    \/ \E id \in 1..(MaxAgents + 1) : DeleteAgentRequest(id)

SpecPatch == InitPatch /\ [][NextPatch]_vars

\* ---------------------------------------------------------------- properties
\* The simulation of the run in progress, and its steps
RunSimulationRecord == simulations[simulation_id]

RunSteps ==
    IF simulation_id \in DOMAIN simulations
    THEN simulations[simulation_id].steps
    ELSE <<>>

Records(step) == {step.agent_responses[j] : j \in 1..Len(step.agent_responses)}

SumInTolerance(state) ==
    SumWeights(state.transitions) >= SumLow /\ SumWeights(state.transitions) <= SumHigh

\* C1: a run that has returned left a Simulation with exactly num_steps
\* steps and an end_time that is set and not before start_time, whatever the
\* snapshot and the calls' outcomes; with no agent registered every step's
\* response list is empty.
RunCompleteness ==
    pc = "done" =>
       /\ Len(RunSimulationRecord.steps) = num_steps
       /\ RunSimulationRecord.end_time # NoTime
       /\ RunSimulationRecord.end_time >= RunSimulationRecord.start_time
       /\ agents_db = <<>> =>
            \A i \in 1..Len(RunSimulationRecord.steps) :
               RunSimulationRecord.steps[i].agent_responses = <<>>

RunCompletenessWitness ==
    /\ pc = "done"
    /\ num_steps >= 2
    /\ Len(run_agents) = 2
    /\ Len(RunSteps[1].agent_responses) = 1
    /\ RunSteps[2].agent_responses = <<>>
    /\ agent_responses[1].data = "TransportError"

\* C2: once the chain lookup has passed, the run reaches COMPLETED: the
\* simulation is finalized, whatever the calls' outcomes.
RunCompletes ==
    (pc \in {"gather", "await"}) ~> (pc = "done" /\ RunSimulationRecord.end_time # NoTime)

RunCompletesWitness ==
    /\ pc = "done"
    /\ RunSimulationRecord.end_time # NoTime
    /\ Len(run_agents) = 2
    /\ \A i \in 1..Len(RunSteps) : RunSteps[i].agent_responses = <<>>
    /\ \A i \in 1..2 : agent_responses[i].kind = "exception"

\* C3: in the step of a run, every agent whose call returned a response has
\* exactly one record in the step's response list and every agent whose call
\* raised has none.
Isolation ==
    pc = "done" =>
       \A i \in 1..Len(run_agents) :
          Cardinality({j \in 1..Len(RunSteps[1].agent_responses) :
                          RunSteps[1].agent_responses[j].agent_id = run_agents[i]})
             = IF agent_responses[i].kind = "response" THEN 1 ELSE 0

IsolationWitness ==
    /\ pc = "done"
    /\ run_agents = <<1, 2, 3>>
    /\ agent_responses[2] = Raised(2, "TransportError")
    /\ Len(RunSteps[1].agent_responses) = 2
    /\ RunSteps[1].agent_responses[1].agent_id = 1
    /\ RunSteps[1].agent_responses[2].agent_id = 3

\* C4: run_simulation with a chain_id that is not in the chain store ends
\* with not-found and writes nothing: the three stores are unchanged and no
\* request is sent.
NotFoundWritesNothing ==
    [][(pc = "idle" /\ pc' # "idle" /\ arg_chain_id' \notin DOMAIN markov_chains)
         => /\ pc' = "failed404"
            /\ simulations' = simulations
            /\ markov_chains' = markov_chains
            /\ agents_db' = agents_db
            /\ agent_obj' = agent_obj
            /\ sent' = sent
            /\ inflight' = inflight]_vars

NotFoundWitness ==
    /\ pc = "failed404"
    /\ chain_uuid = 1
    /\ markov_chains = <<>>
    /\ simulations = <<>>
    /\ get_active_agents # <<>>

\* C5: in every step after the first, each agent of the snapshot is sent the
\* step's request, also an agent deactivated since the snapshot was taken.
SnapshotAgentsAlwaysNotified ==
    (pc = "await" /\ step_no >= 2) =>
       \A i \in 1..Len(run_agents) :
          \E j \in 1..Len(sent) : sent[j] = <<step_no, run_agents[i]>>

\* C6: an agent registered after the run took its snapshot is never sent a
\* request by the run and has no record in any of its steps.
LateAgentsNeverNotified ==
    /\ \A j \in 1..Len(sent) : sent[j][2] <= snapshot_uuid
    /\ \A e \in inflight : e[2] <= snapshot_uuid
    /\ \A i \in 1..Len(RunSteps) :
          \A r \in Records(RunSteps[i]) : r.agent_id <= snapshot_uuid

LateAgentWitness ==
    /\ pc = "await"
    /\ step_no = 2
    /\ run_agents # <<>>
    /\ Len(agent_obj) > snapshot_uuid
    /\ \E i \in 1..Len(agents_db) : agents_db[i] > snapshot_uuid /\ IsActive(agents_db[i])
    /\ Len(RunSteps) = 1
    /\ RunSteps[1].agent_responses # <<>>

\* Position of agent a in a sequence of agent ids (0 when absent)
Position(seq, a) ==
    IF \E i \in 1..Len(seq) : seq[i] = a
    THEN CHOOSE i \in 1..Len(seq) : seq[i] = a
    ELSE 0

\* C7 as stated: the records of a step are in the order in which the calls
\* ended.
RecordsInCompletionOrder ==
    pc = "done" =>
       \A x, y \in 1..Len(RunSteps[1].agent_responses) :
          x < y => Position(finished, RunSteps[1].agent_responses[x].agent_id)
                      < Position(finished, RunSteps[1].agent_responses[y].agent_id)

\* C7 as amended: the records of a step are in the order of the agents in
\* the snapshot, whatever the order in which the calls ended.
RecordsInSnapshotOrder ==
    pc = "done" =>
       \A x, y \in 1..Len(RunSteps[1].agent_responses) :
          x < y => Position(run_agents, RunSteps[1].agent_responses[x].agent_id)
                      < Position(run_agents, RunSteps[1].agent_responses[y].agent_id)

RecordsInSnapshotOrderWitness ==
    /\ pc = "done"
    /\ run_agents = <<1, 2, 3>>
    /\ finished = <<3, 2, 1>>
    /\ Len(RunSteps[1].agent_responses) = 3
    /\ RunSteps[1].agent_responses[1].agent_id = 1
    /\ RunSteps[1].agent_responses[3].agent_id = 3

\* C8: the requests of a step are sent only when no request of an earlier
\* step is open and every earlier step is stored, and the stored steps only
\* grow at the end.
StepsNeverOverlap ==
    [][/\ sent' # sent =>
            /\ inflight = {}
            /\ \A j \in (Len(sent) + 1)..Len(sent') : sent'[j][1] = Len(RunSteps) + 1
       /\ simulation_id' = simulation_id =>
            /\ Len(RunSteps') >= Len(RunSteps)
            /\ SubSeq(RunSteps', 1, Len(RunSteps)) = RunSteps]_vars

StepsNeverOverlapWitness ==
    /\ pc = "await"
    /\ step_no = 2
    /\ Len(run_agents) = 2
    /\ Cardinality(inflight) = 1
    /\ Len(RunSteps) = 1
    /\ Len(sent) = 4

\* C9: every state of every stored chain has weights summing to within
\* [0.99, 1.01]; a draft with a state outside that interval is rejected, and
\* an accepted draft is stored with the weights it came with.
WeightInvariant ==
    /\ \A id \in DOMAIN markov_chains :
          \A k \in DOMAIN markov_chains[id].states :
             SumInTolerance(markov_chains[id].states[k])
    /\ (verdict # 0 /\ \E k \in DOMAIN draft.states : ~SumInTolerance(draft.states[k]))
          => (verdict # 200 /\ markov_chains = <<>>)
    /\ (verdict = 200 /\ chain_uuid \in DOMAIN markov_chains)
          => markov_chains[chain_uuid].states = draft.states

WeightInvariantWitness ==
    /\ verdict = 422
    /\ markov_chains = <<>>
    /\ "home" \in DOMAIN draft.states
    /\ draft.states["home"].transitions = <<Tr("home", 700000), Tr("cart", 200000)>>

\* C10: every stored chain has its initial_state and every transition
\* target among the keys of its states; a draft with an undeclared initial
\* state or a dangling target is rejected.
ReferentialInvariant ==
    /\ \A id \in DOMAIN markov_chains :
          /\ markov_chains[id].initial_state \in DOMAIN markov_chains[id].states
          /\ \A k \in DOMAIN markov_chains[id].states :
                Targets(markov_chains[id].states[k].transitions)
                   \subseteq DOMAIN markov_chains[id].states
    /\ (/\ verdict # 0
        /\ \/ draft.initial_state \notin DOMAIN draft.states
           \/ \E k \in DOMAIN draft.states :
                 ~(Targets(draft.states[k].transitions) \subseteq DOMAIN draft.states))
          => (verdict # 200 /\ markov_chains = <<>>)

ReferentialInvariantWitness ==
    /\ verdict = 500
    /\ markov_chains = <<>>
    /\ draft.initial_state = "home"
    /\ DOMAIN draft.states = {"home"}
    /\ draft.states["home"].transitions = <<Tr("gone", 1000000)>>

Sound(c) ==
    /\ \A k \in DOMAIN c.states : SumInTolerance(c.states[k])
    /\ c.initial_state \in DOMAIN c.states
    /\ \A k \in DOMAIN c.states :
          Targets(c.states[k].transitions) \subseteq DOMAIN c.states

\* C12: a create-chain request whose draft violates the weight or the
\* referential invariant fails and leaves the chain store exactly as it was,
\* and every chain in the store satisfies both invariants at all times.
FailFast ==
    /\ [][(verdict = 0 /\ verdict' # 0 /\ ~Sound(draft'))
            => (verdict' # 200 /\ markov_chains' = markov_chains)]_vars
    /\ [](\A id \in DOMAIN markov_chains : Sound(markov_chains[id]))

FailFastWitness ==
    /\ verdict = 500
    /\ markov_chains = (1 :> MarkovChain(1, ShopDraft))
    /\ DOMAIN draft.states = {"home", "cart"}
    /\ draft.states["cart"] = CartLost

\* The transitions the latest draw was made over: those of the state of the
\* step stored last
SampledTransitions == chain.states[RunSteps[Len(RunSteps)].state_name].transitions

\* Sum of the first i weights of a transition dict
Cumulative(t, i) == SumWeights(SubSeq(t, 1, i))

\* Positions of a transition dict whose cumulative weight reaches r
Reaching(t, r) == {i \in 1..Len(t) : Cumulative(t, i) >= r}

\* C13: over a non-empty mapping the sampler returns the first destination,
\* in insertion order, whose cumulative weight is >= r; over {A: 0.3, B: 0.3,
\* C: 0.4} it returns A for 0.0 and 0.29, B for 0.31, C for 0.65 and 0.999999.
SamplerFirstReaching ==
    drawn # NoDraw =>
       /\ (SampledTransitions # <<>> /\ Reaching(SampledTransitions, drawn) # {}) =>
             \E i \in Reaching(SampledTransitions, drawn) :
                /\ \A j \in Reaching(SampledTransitions, drawn) : i <= j
                /\ current_state_name = SampledTransitions[i].to
       /\ SampledTransitions = StateA.transitions =>
             /\ drawn \in {0, 290000} => current_state_name = "A"
             /\ drawn = 310000 => current_state_name = "B"
             /\ drawn \in {650000, 999999} => current_state_name = "C"

SamplerFirstReachingWitness ==
    /\ drawn = 310000
    /\ pc = "done"
    /\ SampledTransitions = StateA.transitions
    /\ current_state_name = "B"

\* C14: when no cumulative weight reaches r (weights summing to 0.99 and r
\* above that), the sampler returns the last transition in iteration order.
SamplerFallsBackToLast ==
    (/\ drawn # NoDraw
     /\ SampledTransitions # <<>>
     /\ Reaching(SampledTransitions, drawn) = {})
       => current_state_name = SampledTransitions[Len(SampledTransitions)].to

SamplerFallsBackToLastWitness ==
    /\ drawn = 995000
    /\ pc = "done"
    /\ SampledTransitions = <<Tr("home", 490000), Tr("cart", 500000)>>
    /\ current_state_name = "cart"

\* C15: a run that reaches a state with an empty transition mapping stays
\* in it for each remaining step and still executes all num_steps steps:
\* once the ending chain has been posted it is in the store, and every
\* finished run over it has num_steps steps, all after the first at "end".
TerminalStateRepeats ==
    (verdict # 0 /\ draft = EndingDraft) =>
       /\ chain_uuid \in DOMAIN markov_chains
       /\ markov_chains[chain_uuid] = MarkovChain(chain_uuid, EndingDraft)
       /\ (pc = "done" /\ arg_chain_id = chain_uuid) =>
             /\ Len(RunSteps) = num_steps
             /\ \A i \in 2..Len(RunSteps) : RunSteps[i].state_name = "end"

\* C16: whenever the remote side delivers a response the notifier returns an
\* AgentResponse, whatever the body: with every call answered, no task of
\* the gather ends in an exception and every step of a finished run holds
\* one record per agent of the snapshot.
AnyBodyRecorded ==
    /\ \A i \in 1..Len(agent_responses) : agent_responses[i].kind # "exception"
    /\ pc = "done" =>
          \A k \in 1..Len(RunSteps) :
             Len(RunSteps[k].agent_responses) = Len(run_agents)

\* Number of requests the run has sent to agent a
Attempts(a) == Cardinality({j \in 1..Len(sent) : sent[j][2] = a})

\* C17: no notification is retried: a step sends an agent at most one
\* request, failed or not, and over a run of N steps an agent is sent at
\* most N requests.
NoRetry ==
    /\ \A i, j \in 1..Len(sent) : i # j => sent[i] # sent[j]
    /\ step_no <= num_steps
    /\ \A a \in AgentIds : Attempts(a) <= step_no

NoRetryWitness ==
    /\ pc = "done"
    /\ num_steps = 2
    /\ run_agents = <<1>>
    /\ sent = << <<1, 1>>, <<2, 1>> >>
    /\ RunSteps[1].agent_responses = <<>>
    /\ Len(RunSteps[2].agent_responses) = 1

\* Is agent a an element of the sequence of agent ids
InSeq(seq, a) == \E i \in 1..Len(seq) : seq[i] = a

\* C18: the snapshot of a run is the agents that are registered and active
\* at that moment, and the run sends requests to agents of the snapshot
\* only: an agent inactive then gets none, also when activated since.
OnlySnapshotActiveNotified ==
    [][/\ (pc = "idle" /\ pc' = "gather") =>
            \A a \in AgentIds :
               InSeq(run_agents', a) <=> (InSeq(agents_db, a) /\ agent_obj[a].active)
       /\ \A j \in (Len(sent) + 1)..Len(sent') : InSeq(run_agents, sent'[j][2])]_vars

OnlySnapshotActiveWitness ==
    /\ pc = "await"
    /\ step_no = 2
    /\ agents_db = <<1, 2>>
    /\ snapshot_uuid = 2
    /\ run_agents = <<1>>
    /\ agent_obj[2].active
    /\ sent = << <<1, 1>>, <<2, 1>> >>

\* C19: the notifier is only ever invoked with an agent whose active flag
\* is true: no task of a gather ends in the AssertionError of the
\* precondition, whatever the interleaving with agent updates and deletions.
PreconditionNeverFails ==
    \A i \in 1..Len(agent_responses) :
       agent_responses[i] # Raised(agent_responses[i].agent_id, "AssertionError")

\* C20: a simulation enters the store with no steps and no end_time; its
\* end_time is unset while steps are being appended and is set only with
\* all num_steps steps of its run stored; once end_time is set, neither the
\* steps nor end_time of that simulation change again.
SimulationLifecycle ==
    [][/\ DOMAIN simulations \subseteq DOMAIN simulations'
       /\ \A id \in DOMAIN simulations' \ DOMAIN simulations :
             /\ simulations'[id].steps = <<>>
             /\ simulations'[id].end_time = NoTime
       /\ \A id \in DOMAIN simulations :
             /\ simulations[id].end_time # NoTime => simulations'[id] = simulations[id]
             /\ (simulations[id].end_time = NoTime /\ simulations'[id].end_time # NoTime)
                   => (id = simulation_id /\ Len(simulations'[id].steps) = num_steps)
       /\ (/\ pc' \in {"gather", "await", "done"}
           /\ Len(simulations'[simulation_id'].steps) < num_steps')
             => simulations'[simulation_id'].end_time = NoTime]_vars

SimulationLifecycleWitness ==
    /\ DOMAIN simulations = {1, 2}
    /\ simulations[1].end_time # NoTime
    /\ Len(simulations[1].steps) = 2
    /\ pc = "await"
    /\ simulation_id = 2
    /\ num_steps = 2
    /\ Len(simulations[2].steps) = 1
    /\ simulations[2].end_time = NoTime

\* C22: every request the run sends goes to the url of the agent it is for,
\* with the method of the state the step is in and the X-Simulation header;
\* for GET the payload is the query parameters and there is no body, for any
\* other verb the payload is the JSON body and the content type is
\* application/json.
RequestsCarryState ==
    [][/\ Len(requests') = Len(sent')
       /\ \A j \in (Len(requests) + 1)..Len(requests') :
             LET r == requests'[j]
                 state == chain.states[current_state_name]
             IN  /\ r.url = agent_obj[sent'[j][2]].url
                 /\ r.method = state.http_method
                 /\ <<"X-Simulation", "true">> \in r.headers
                 /\ IF state.http_method = "GET"
                    THEN /\ r.params = state.payload
                         /\ r.json = None
                    ELSE /\ r.json = state.payload
                         /\ r.params = None
                         /\ <<"Content-Type", "application/json">> \in r.headers]_vars

RequestsCarryStateWitness ==
    /\ pc = "done"
    /\ run_agents = <<1, 2>>
    /\ Len(requests) = 4
    /\ requests[1].method = "GET" /\ requests[1].params = "p0"
    /\ requests[2].url = AgentUrl(2)
    /\ requests[4].method = "POST" /\ requests[4].json = "p1"
    /\ requests[4].url = AgentUrl(2)

\* C26: no failed call is dropped silently: when a step is processed, every
\* agent whose task ended in an exception has a warning naming it logged for
\* that step of that simulation, and has no record in the stored step.
FailuresLogged ==
    [][(pc = "await" /\ pc' # "await") =>
          \A i \in 1..Len(agent_responses) :
             agent_responses[i].kind = "exception" =>
                /\ <<simulation_id, step_no, agent_responses[i].agent_id>> \in warnings'
                /\ \A r \in Records(simulations'[simulation_id].steps[step_no]) :
                      r.agent_id # agent_responses[i].agent_id]_vars

FailuresLoggedWitness ==
    /\ pc = "done"
    /\ num_steps = 1
    /\ run_agents = <<1, 2>>
    /\ agent_responses[1] = Raised(1, "AssertionError")
    /\ agent_responses[2].kind = "exception"
    /\ agent_responses[2].data # "AssertionError"
    /\ warnings = {<<1, 1, 1>>, <<1, 1, 2>>}
    /\ RunSteps[1].agent_responses = <<>>

\* C29: from its creation to its finalization the simulation of a run is in
\* the store, whatever chain requests are interleaved with the run: no
\* simulation ever leaves the store, complete_simulation finds the run's
\* simulation, and the assertion of line 78 does not fail.
SimulationStaysStored ==
    /\ [][DOMAIN simulations \subseteq DOMAIN simulations']_vars
    /\ [](pc # "crashed")
    /\ [](pc \in {"gather", "await", "done"} => simulation_id \in DOMAIN simulations)

SimulationStaysStoredWitness ==
    /\ pc = "done"
    /\ num_steps = 2
    /\ arg_chain_id \notin DOMAIN markov_chains
    /\ simulation_id \in DOMAIN simulations
    /\ Len(RunSimulationRecord.steps) = 2
    /\ RunSimulationRecord.end_time # NoTime

\* C25: a call answered with an error status is not a failed call: only a
\* timeout or a transport-level exception leaves a task of the gather with
\* an exception, and so the agent without a record in the step.
OnlyTransportFailuresDropped ==
    \A i \in 1..Len(agent_responses) :
       agent_responses[i].kind = "exception" =>
          agent_responses[i].data = "TransportError"

\* C28: every state of a stored chain has only non-negative transition
\* weights: a state with a negative weight is rejected, also when its
\* weights sum to within the tolerance.
NonNegativeWeights ==
    \A id \in DOMAIN markov_chains :
       \A k \in DOMAIN markov_chains[id].states :
          \A i \in 1..Len(markov_chains[id].states[k].transitions) :
             markov_chains[id].states[k].transitions[i].p >= 0

\* C27: the stored steps of a run are its walk in execution order: the walk
\* starts at the chain's initial_state; processing step k appends, after the
\* k - 1 steps stored so far, a step with the name, method and payload of
\* the state the walk is in; and the walk moves on to the state the sampler
\* chooses from that state with the value drawn, a key of its transition
\* mapping (the same state when the mapping is empty).
StoredStepsAreTheWalk ==
    [][/\ (pc = "idle" /\ pc' = "gather") =>
            /\ current_state_name' = markov_chains[arg_chain_id'].initial_state
            /\ simulations'[simulation_id'].steps = <<>>
       /\ (pc = "await" /\ pc' # "await") =>
            LET state == chain.states[current_state_name]
                stored == simulations'[simulation_id].steps
            IN  /\ Len(stored) = step_no
                /\ SubSeq(stored, 1, step_no - 1) = RunSteps
                /\ stored[step_no].state_name = state.name
                /\ stored[step_no].http_method = state.http_method
                /\ stored[step_no].payload = state.payload
                /\ current_state_name' = _choose_next_state(state, drawn')
                /\ IF state.transitions = <<>>
                   THEN current_state_name' = current_state_name
                   ELSE current_state_name' \in Targets(state.transitions)]_vars

StoredStepsAreTheWalkWitness ==
    /\ pc = "done"
    /\ chain.initial_state = "A"
    /\ Len(RunSteps) = 2
    /\ RunSteps[1].state_name = "A"
    /\ RunSteps[2].state_name = "C"
    /\ drawn = 300000
    /\ current_state_name = "A"

\* C21: the service layer runs a simulation only for a step count from 1 to
\* 100: a request with such a count is never answered 422, and a request
\* with 0, a negative count or a count above 100 is answered 422, stores no
\* Simulation and sends no agent a request; so no run is in progress with
\* another count and no stored simulation has more than 100 steps.
StepsValidated ==
    /\ [][(pc = "idle" /\ pc' # "idle") =>
             IF asked'.steps >= 1 /\ asked'.steps <= 100
             THEN pc' # "failed422"
             ELSE /\ pc' = "failed422"
                  /\ simulations' = simulations
                  /\ sent' = sent
                  /\ requests' = requests
                  /\ inflight' = inflight]_vars
    /\ [](pc \in {"gather", "await", "done"} => (num_steps >= 1 /\ num_steps <= 100))
    /\ [](\A id \in DOMAIN simulations : Len(simulations[id].steps) <= 100)

StepsValidatedWitness ==
    /\ pc = "failed422"
    /\ asked.route = "create"
    /\ asked.steps = 101
    /\ asked.chain_id \in DOMAIN markov_chains
    /\ simulations = <<>>
    /\ sent = <<>>

\* C23: create_default_markov_chains creates chains from an empty store only,
\* then exactly one per key of DEFAULT_CHAINS, and leaves the registry
\* holding for every key the id of the stored chain made from that key's
\* dictionary; a further call creates no chain and changes no id.
DefaultsSeededOnce ==
    /\ [][(markov_chains' # markov_chains \/ default_chain_ids' # default_chain_ids) =>
             /\ markov_chains = <<>>
             /\ default_chain_ids = <<>>
             /\ Cardinality(DOMAIN markov_chains') = 3]_vars
    /\ [](markov_chains # <<>> =>
             /\ registry_keys(default_chain_ids) = {"ecommerce", "social_media", "streaming"}
             /\ Len(default_chain_ids) = 3
             /\ \A i \in 1..3 :
                   /\ default_chain_ids[i].id \in DOMAIN markov_chains
                   /\ markov_chains[default_chain_ids[i].id] =
                        MarkovChain(default_chain_ids[i].id, DEFAULT_CHAINS[i].chain)
             /\ \A i, j \in 1..3 :
                   i # j => default_chain_ids[i].id # default_chain_ids[j].id)

DefaultsSeededOnceWitness ==
    /\ DOMAIN markov_chains = {1, 2, 3}
    /\ default_chain_ids = <<[key |-> "ecommerce", id |-> 1],
                             [key |-> "social_media", id |-> 2],
                             [key |-> "streaming", id |-> 3]>>
    /\ pc = "done"
    /\ asked.route = "all"
    /\ todo = <<>>
    /\ DOMAIN simulations = {1, 2, 3}
    /\ \A id \in {1, 2, 3} : simulations[id].chain_id = id

\* C24: once the startup handler has run, a default-simulation request with
\* one of the keys ecommerce, social_media and streaming and a valid step
\* count finds its key in the registry and is run: it is not answered 404.
DefaultKeysServed ==
    (/\ Started
     /\ asked.route = "default"
     /\ asked.key \in {"ecommerce", "social_media", "streaming"}
     /\ asked.steps >= 1 /\ asked.steps <= 100)
       => pc # "failed404"

\* The steps stored for a task are a walk of its own chain
OwnWalk(task) ==
    LET steps == simulations[task.simulation_id].steps
        states == markov_chains[task.arg_chain_id].states
    IN  /\ simulations[task.simulation_id].chain_id = task.arg_chain_id
        /\ \A k \in 1..Len(steps) :
              /\ steps[k].state_name \in DOMAIN states
              /\ steps[k].payload = states[steps[k].state_name].payload
              /\ k = 1 => steps[k].state_name = markov_chains[task.arg_chain_id].initial_state
              /\ k > 1 => steps[k].state_name \in
                              Targets(states[steps[k - 1].state_name].transitions)

\* C30: with two runs in progress and interleaved, a step of one task changes
\* no simulation but that task's own; the two tasks have different
\* simulations; the stored steps of each are a walk of its own chain; and a
\* task that has returned left exactly num_steps steps and an end_time in its
\* simulation, while the simulation of a task still running has no end_time.
RunsDoNotMix ==
    /\ [][\A id \in DOMAIN simulations :
             simulations'[id] # simulations[id] => id = simulation_id]_vars
    /\ [](\A task \in {Locals, other} :
             task.pc \in {"gather", "await", "done"} =>
                /\ OwnWalk(task)
                /\ task.pc = "done" =>
                      /\ Len(simulations[task.simulation_id].steps) = task.num_steps
                      /\ simulations[task.simulation_id].end_time # NoTime
                /\ task.pc # "done" =>
                      /\ Len(simulations[task.simulation_id].steps) = task.step_no - 1
                      /\ simulations[task.simulation_id].end_time = NoTime)
    /\ []((pc # "idle" /\ other.pc # "idle") => simulation_id # other.simulation_id)

RunsDoNotMixWitness ==
    /\ pc = "done"
    /\ other.pc = "await"
    /\ arg_chain_id = 1
    /\ other.arg_chain_id = 2
    /\ simulation_id = 1
    /\ other.simulation_id = 2
    /\ num_steps = 2
    /\ other.num_steps = 2
    /\ other.step_no = 2
    /\ RunSteps[2].state_name = "cart"
    /\ Len(simulations[2].steps) = 1
    /\ simulations[2].steps[1].state_name = "ping"
    /\ simulations[1].end_time # NoTime
    /\ simulations[2].end_time = NoTime

\* C31: deleting the chain of a run in progress does not change the run: the
\* delete leaves the run's chain object, position and simulation as they
\* are; the run's current state is always a state of the chain it read at
\* the start; and the run returns with exactly num_steps steps, each a state
\* of that chain.
DeletedChainStillWalked ==
    /\ [][(pc \in {"gather", "await"} /\ arg_chain_id \in DOMAIN markov_chains
                                       /\ arg_chain_id \notin DOMAIN markov_chains') =>
             UNCHANGED <<chain, current_state_name, step_no, pc, simulations>>]_vars
    /\ [](pc \in {"gather", "await"} =>
             /\ chain.id = arg_chain_id
             /\ current_state_name \in DOMAIN chain.states)
    /\ [](pc = "done" =>
             /\ Len(RunSteps) = num_steps
             /\ \A k \in 1..Len(RunSteps) : RunSteps[k].state_name \in DOMAIN chain.states)

DeletedChainStillWalkedWitness ==
    /\ pc = "done"
    /\ markov_chains = <<>>
    /\ chain = MarkovChain(1, PingDraft)
    /\ num_steps = 2
    /\ Len(RunSteps) = 2
    /\ RunSteps[2].state_name = "ping"
    /\ Len(RunSteps[2].agent_responses) = 1

\* C32: each of the three built-in chain definitions satisfies the chain
\* invariants: its initial state is a declared state, every transition
\* target of every state is a declared state, every state's weights sum to
\* within [0.99, 1.01]; and each is accepted by the validator, so that the
\* seeded store holds the chain made from each.
BuiltInChainsValid ==
    /\ {DEFAULT_CHAINS[i].key : i \in 1..Len(DEFAULT_CHAINS)} =
          {"ecommerce", "social_media", "streaming"}
    /\ \A i \in 1..Len(DEFAULT_CHAINS) :
          LET d == DEFAULT_CHAINS[i].chain
          IN  /\ d.initial_state \in DOMAIN d.states
              /\ \A k \in DOMAIN d.states :
                    /\ \A j \in 1..Len(d.states[k].transitions) :
                          d.states[k].transitions[j].to \in DOMAIN d.states
                    /\ SumWeights(d.states[k].transitions) >= 990000
                    /\ SumWeights(d.states[k].transitions) <= 1010000
              /\ MarkovChainValid(d)
              /\ markov_chains # <<>> =>
                    \E id \in DOMAIN markov_chains : markov_chains[id] = MarkovChain(id, d)

BuiltInChainsValidWitness ==
    /\ Cardinality(DOMAIN markov_chains) = 3
    /\ pc = "done"
    /\ asked.route = "default"
    /\ asked.key = "streaming"
    /\ chain = MarkovChain(3, STREAMING_PLATFORM_CHAIN)
    /\ num_steps = 2
    /\ RunSteps[1].state_name = STREAMING_PLATFORM_CHAIN.initial_state
    /\ RunSteps[2].state_name \in DOMAIN STREAMING_PLATFORM_CHAIN.states

\* C33: in every stored chain each state's name field equals the key the
\* state is stored under, so the first step of a run records the chain's
\* initial_state and every step records a key of the chain's states.
NameIsKey ==
    /\ \A id \in DOMAIN markov_chains :
          \A k \in DOMAIN markov_chains[id].states :
             markov_chains[id].states[k].name = k
    /\ pc \in {"gather", "await", "done"} =>
          /\ Len(RunSteps) >= 1 => RunSteps[1].state_name = chain.initial_state
          /\ \A k \in 1..Len(RunSteps) : RunSteps[k].state_name \in DOMAIN chain.states

\* C34: over a non-empty transition mapping the sampler returns a key of the
\* mapping for every value drawn, for every state of every stored chain and
\* in every step of a run; so the current state name of a run is always a
\* key of its chain's states and the state lookup never fails.
SamplerReturnsKey ==
    /\ [](\A id \in DOMAIN markov_chains :
             \A k \in DOMAIN markov_chains[id].states :
                \A r \in SampleDraws :
                   markov_chains[id].states[k].transitions # <<>> =>
                      _choose_next_state(markov_chains[id].states[k], r)
                         \in Targets(markov_chains[id].states[k].transitions))
    /\ [][(pc = "await" /\ pc' # "await"
             /\ chain.states[current_state_name].transitions # <<>>) =>
             current_state_name' \in Targets(chain.states[current_state_name].transitions)]_vars
    /\ [](pc \in {"gather", "await", "done"} => current_state_name \in DOMAIN chain.states)

SamplerReturnsKeyWitness ==
    /\ pc = "await"
    /\ step_no = 2
    /\ drawn = 995000
    /\ chain.states["home"].transitions = <<Tr("cart", 490000), Tr("home", 500000)>>
    /\ current_state_name = "home"
    /\ RunSteps[1].state_name = "home"

\* C35: the sampler never returns a destination whose weight is 0: after a
\* draw over a non-empty mapping the state chosen has a positive weight in
\* that mapping.
SamplerSkipsZeroWeight ==
    (drawn # NoDraw /\ SampledTransitions # <<>>) =>
       \E i \in 1..Len(SampledTransitions) :
          /\ SampledTransitions[i].to = current_state_name
          /\ SampledTransitions[i].p > 0

\* C36: in every stored step of a run the response list has at most one
\* record per agent, only records of agents of the run's snapshot, never
\* more records than the snapshot has agents, and each record carries the
\* id and the name of the agent that answered.
OneRecordPerSnapshotAgent ==
    \A s \in 1..Len(RunSteps) :
       LET rs == RunSteps[s].agent_responses
       IN  /\ Len(rs) <= Len(run_agents)
           /\ \A i, j \in 1..Len(rs) : rs[i].agent_id = rs[j].agent_id => i = j
           /\ \A i \in 1..Len(rs) :
                 /\ InSeq(run_agents, rs[i].agent_id)
                 /\ rs[i].agent_id = agent_obj[rs[i].agent_id].id
                 /\ rs[i].agent_name = agent_obj[rs[i].agent_id].name

OneRecordPerSnapshotAgentWitness ==
    /\ pc = "done"
    /\ Len(run_agents) = FanoutAgents
    /\ Len(RunSteps) = 1
    /\ Len(RunSteps[1].agent_responses) = 2
    /\ RunSteps[1].agent_responses[1].agent_name = AgentName(1)
    /\ RunSteps[1].agent_responses[2].agent_name = AgentName(FanoutAgents)
    /\ warnings # {}

\* C37: every id held in the default-chain registry is the id of a chain
\* in the chain store, also after chains are deleted and
\* create_default_markov_chains is called again, so that a default-simulation
\* request for a registered key never ends with chain not found.
RegistryIdsStored ==
    /\ \A i \in 1..Len(default_chain_ids) :
          default_chain_ids[i].id \in DOMAIN markov_chains
    /\ (asked.route = "default" /\ asked.key \in registry_keys(default_chain_ids))
          => pc # "failed404"

\* C38: update_agent and delete_agent on an id that is not in the agent
\* store answer not-found and leave the store unchanged; update_agent on a
\* stored agent changes exactly the fields supplied with a non-null value
\* and leaves the agent's id, its other fields and every other agent as
\* they were.
AgentPatchContained ==
    [][IF agent_call' = agent_call
       THEN agents_db' = agents_db /\ agent_obj' = agent_obj
       ELSE LET c == agent_call'
            IN  /\ (c.route \in {"update", "delete"} /\ ~has_agent(c.agent_id))
                      => /\ c.status = 404
                         /\ agents_db' = agents_db
                         /\ agent_obj' = agent_obj
                /\ (c.route = "update" /\ has_agent(c.agent_id))
                      => /\ c.status = 200
                         /\ agents_db' = agents_db
                         /\ DOMAIN agent_obj' = DOMAIN agent_obj
                         /\ \A i \in DOMAIN agent_obj :
                               /\ DOMAIN agent_obj'[i] = DOMAIN agent_obj[i]
                               /\ \A f \in DOMAIN agent_obj[i] :
                                     IF /\ i = c.agent_id
                                        /\ f \in DOMAIN c.update
                                        /\ c.update[f] # <<>>
                                     THEN agent_obj'[i][f] = c.update[f][1]
                                     ELSE agent_obj'[i][f] = agent_obj[i][f]]_vars

AgentPatchContainedWitness ==
    /\ agent_call.route = "update"
    /\ agent_call.agent_id = 1
    /\ agent_call.status = 200
    /\ agent_call.update = [NoUpdate EXCEPT !.active = <<TRUE>>]
    /\ agents_db = <<1, 2>>
    /\ agent_obj[1] = [Agent(1) EXCEPT !.name = <<"renamed", 0>>,
                                       !.url = <<"http://moved", 0>>,
                                       !.description = <<"described", 0>>]
    /\ agent_obj[2] = [Agent(2) EXCEPT !.active = FALSE]

====
